---- MODULE Spec2Model ----
(***************************************************************************)
(* Model of the signal-processing and calibration core of PODFA Monitor:   *)
(* core/data_processor.py (CircularBuffer, filters, DataProcessor) and     *)
(* core/calibration.py (CalibrationEngine).                                *)
(*                                                                         *)
(* Numbers.  Sensor values are integers; every value fed to the model is a *)
(* multiple of 12, so the mean of up to 4 of them and the median of any    *)
(* window of them is again an integer and the model's arithmetic is the    *)
(* code's floating-point arithmetic, exactly.  Quality scores are kept in  *)
(* percent (1.0 = 100).  A comparison of a z-score with a threshold is     *)
(* computed on the squares, cleared of denominators.  The regression of    *)
(* the calibration engine is computed in exact fractions, with values for  *)
(* the results that are not finite numbers.                                *)
(***************************************************************************)
EXTENDS Integers, Sequences, FiniteSets, TLC

\* ------------------------------------------------------------------ bounds
MaxCap == 3            \* largest capacity of the buffer in SpecBuffer
MaxAppends == 5        \* appends recorded since the last clear in SpecBuffer
PipeCap == 3           \* max_buffer_size of the pipeline in SpecPipe
OutlierCap == 13       \* max_buffer_size of the pipeline in SpecOutlier
FilterWindow == 2      \* ProcessingConfig.filter_window in the model
StatisticsWindow == 11 \* ProcessingConfig.statistics_window in the model
StabilizationTime == 1 \* CollectionConfig.stabilization_time, in clock units
CollectionDuration == 1 \* CollectionConfig.collection_duration, in clock units
MinSamples == 1        \* CollectionConfig.min_samples in the model
MaxPoints == 2         \* points the caller collects in SpecCal
MaxReadings == 1       \* readings buffered per collection in SpecCal
MaxTime == 3           \* last clock value in SpecCal
FitMaxPoints == 3      \* points collected in SpecFit
ResultMaxPoints == 3   \* points the caller collects in SpecResult
ResultMaxTime == 2     \* last clock value in SpecResult
ResultMaxReadings == 2 \* readings buffered per collection in SpecResult
StabMaxSteady == 1     \* readings collected after the stabilization in SpecStab
StabMaxTime == 2       \* last clock value in SpecStab
ObjectWindow == 3      \* window_size of the filter object in SpecFilter
MaxPosted == 3         \* events waiting at the GUI event loop
MaxNested == 1         \* modal dialogs open at once
WizardMaxReadings == 2 \* readings of one collection in SpecWizard
WizardMaxTime == 5     \* last reading of the clock in SpecWizard
MaxCalls == 4          \* calls made to the filter in SpecFilter
TickMinSamples == 12   \* min_samples of the configuration in SpecTick
TickMaxReadings == 13  \* readings of one point in SpecTick
TickMaxStabilizing == 10  \* readings during stabilization in SpecTick
TickMaxTime == 5       \* last reading of the clock in SpecTick

\* ------------------------------------------------------- program constants
OutlierThreshold == 3  \* ProcessingConfig.outlier_threshold (3.0)
QualityThreshold == 50 \* ProcessingConfig.quality_threshold (0.5), in percent
MinOutlierSamples == 10 \* DataProcessor._is_outlier: len(self.buffer) < 10
MaxCvPercentage == 5   \* CollectionConfig.max_cv_percentage (5.0)
EngineOutlierThreshold == 3 \* CollectionConfig.outlier_threshold (3.0)

\* Python's None, where the other values are records.
None == [none |-> TRUE]

VARIABLES
    \* CircularBuffer / DataProcessor
    buffer,             \* CircularBuffer._buffer: sequence of DataPoint
    max_size,           \* CircularBuffer.max_size (deque maxlen)
    filter_type,        \* ProcessingConfig.filter_type
    filter_values,      \* MovingAverageFilter.values / MedianFilter.values
    calibration_result, \* DataProcessor.calibration_result
    calibration_mode,   \* DataProcessor.calibration_mode
    \* CalibrationEngine
    state,              \* CalibrationEngine.state
    current_step,       \* CalibrationEngine.current_step
    total_steps,        \* CalibrationEngine.total_steps
    calibration_points, \* CalibrationEngine.calibration_points
    current_point,      \* CalibrationEngine.current_point (None or a point)
    aliased,            \* the indices of calibration_points that hold the very
                        \* object current_point refers to
    current_readings,   \* CalibrationEngine.current_readings
    collection_start_time,    \* 0 stands for None (both are falsy)
    stabilization_start_time, \* 0 until the first collection sets it
    target_weight,      \* CalibrationEngine.target_weight: None or [value |-> w]
    is_stabilizing,     \* FALSE also while the attribute does not exist yet
    timer_active,       \* collection_timer is running
    now,                \* time.time(), in clock units
    \* what the last call did, as its caller and its listeners see it
    last_op,            \* name of the last operation called
    ret,                \* its return value
    events,             \* the signals it emitted, in order
    \* history variable of SpecBuffer
    appended,           \* the items appended since the last clear
    \* CalibrationEngine.config, the files, a filter object on its own
    min_samples,        \* CalibrationEngine.config.min_samples
    files,              \* what each file holds: None or a JSON document
    butter,             \* a ButterworthFilter object, None when there is none
    fed,                \* the values fed to the filter since its last reset
    outs,               \* what the filter returned for them
    statistics,         \* DataProcessor._statistics, the current snapshot
    max_buffer_size,    \* DataProcessor.config.max_buffer_size
    \* the result the wizard keeps
    held,               \* AnalysisPage.result: None or a CalibrationResult
    held_alias,         \* the indices of held.points that hold the very
                        \* object current_point refers to
    page,               \* the wizard's CollectionPage once initialised:
                        \* current_step, is_collecting, the weights skipped
    \* the threads of the application
    call_stack,         \* per thread, the calls in progress, innermost last
    event_queue         \* the events posted to the GUI thread's event loop

bufVars == <<buffer, max_size>>
pipeVars == <<buffer, max_size, filter_type, filter_values, calibration_result,
              calibration_mode>>
calVars == <<state, current_step, total_steps, calibration_points, current_point,
             aliased, current_readings, collection_start_time,
             stabilization_start_time, target_weight, is_stabilizing,
             timer_active>>
callVars == <<last_op, ret, events>>
restVars == <<min_samples, files, butter, fed, outs, statistics,
              max_buffer_size, call_stack, event_queue>>
heldVars == <<held, held_alias, page>>
vars == <<buffer, max_size, filter_type, filter_values, calibration_result,
          calibration_mode, state, current_step, total_steps, calibration_points,
          current_point, aliased, current_readings, collection_start_time,
          stabilization_start_time, target_weight, is_stabilizing, timer_active,
          now, last_op, ret, events, appended, calVars, now, restVars, heldVars>>

\* Python's True and False as return values.
True == [bool |-> TRUE]

False == [bool |-> FALSE]

\* A signal emission: the signal, its argument, and what a listener reading
\* the emitter at that moment would see.
Event(sig, arg, seen) == [sig |-> sig, arg |-> arg, seen |-> seen]

Signals(evs) == [i \in 1..Len(evs) |-> evs[i].sig]

\* ------------------------------------------------------------ DataPoint
\* An optional float that is set.
Some(v) == [value |-> v]

\* DataPoint.value: the calibrated value when it is set, else the filtered
\* value when it is set, else the raw value.
DataPointValue(calibrated, filtered, raw) ==
    IF calibrated # None THEN calibrated.value
    ELSE IF filtered # None THEN filtered.value
    ELSE raw

DataPoint(raw, filtered, calibrated, quality) ==
    [raw_value |-> raw, filtered_value |-> filtered,
     calibrated_value |-> calibrated, quality_score |-> quality]

\* --------------------------------------------------------- CircularBuffer
\* deque(maxlen=max_size).append: a full deque drops its oldest element; a
\* deque of maxlen 0 stays empty.
DequeAppendUnbounded(d, item, maxlen) == Append(d, item)

DequeAppend(d, item, maxlen) ==
    IF Len(d) < maxlen THEN Append(d, item)
    ELSE IF maxlen = 0 THEN d
    ELSE Append(Tail(d), item)

BufferAppend(buf, item, maxlen) == DequeAppend(buf, item, maxlen)

BufferClear(buf) == << >>

\* list(self._buffer)[-count:] with count < len, and the whole list otherwise.
\* Python's slice [-0:] is the whole list.
BufferGetLatest(buf, count) ==
    IF count >= Len(buf) THEN buf
    ELSE IF count = 0 THEN buf
    ELSE SubSeq(buf, Len(buf) - count + 1, Len(buf))

\* ------------------------------------------------------------ arithmetic
\* The last n elements of s (all of s when it is shorter).
LastN(s, n) == IF Len(s) <= n THEN s ELSE SubSeq(s, Len(s) - n + 1, Len(s))

RECURSIVE SeqSum(_)
SeqSum(s) == IF s = << >> THEN 0 ELSE Head(s) + SeqSum(Tail(s))

RECURSIVE SeqSumSq(_)
SeqSumSq(s) == IF s = << >> THEN 0 ELSE Head(s) * Head(s) + SeqSumSq(Tail(s))

Abs(x) == IF x < 0 THEN 0 - x ELSE x

\* n^2 * variance of the values of s (n = Len(s)): n*sum(x^2) - sum(x)^2.
\* np.std(s) == 0 exactly when this is 0.
ScaledVar(s) == Len(s) * SeqSumSq(s) - SeqSum(s) * SeqSum(s)

\* abs(value - np.mean(s)) > k * np.std(s), on the squares and times n^2.
DeviatesMoreThan(value, s, k) ==
    LET d == Len(s) * value - SeqSum(s)
    IN  d * d > k * k * ScaledVar(s)

\* np.mean of integers whose sum the length divides.
Mean(s) == SeqSum(s) \div Len(s)

RECURSIVE Insert(_, _)
Insert(x, s) ==
    IF s = << >> THEN <<x>>
    ELSE IF x <= Head(s) THEN <<x>> \o s
    ELSE <<Head(s)>> \o Insert(x, Tail(s))

RECURSIVE Sorted(_)
Sorted(s) == IF s = << >> THEN << >> ELSE Insert(Head(s), Sorted(Tail(s)))

\* np.median: the middle value, or the mean of the two middle values.
Median(s) ==
    LET t == Sorted(s)
        n == Len(t)
    IN  IF n % 2 = 1 THEN t[(n + 1) \div 2]
        ELSE (t[n \div 2] + t[n \div 2 + 1]) \div 2

\* ------------------------------------------------- float(raw_value_str.strip())
\* A line is a sequence of characters.  The model reads the part of Python's
\* float grammar that is an optionally signed run of decimal digits, and
\* feeds no line with a character on which the full grammar differs ('.',
\* '_', 'e', 'inf', 'nan'): every other line raises ValueError.
IsSpace(c) == c \in {" ", "\t", "\n", "\r"}

Digits == <<"0", "1", "2", "3", "4", "5", "6", "7", "8", "9">>

IsDigit(c) == \E i \in 1..Len(Digits) : Digits[i] = c

DigitValue(c) == (CHOOSE i \in 1..Len(Digits) : Digits[i] = c) - 1

RECURSIVE StripLeft(_)
StripLeft(s) ==
    IF s # << >> /\ IsSpace(Head(s)) THEN StripLeft(Tail(s)) ELSE s

RECURSIVE StripRight(_)
StripRight(s) ==
    IF s # << >> /\ IsSpace(s[Len(s)]) THEN StripRight(SubSeq(s, 1, Len(s) - 1)) ELSE s

Strip(s) == StripRight(StripLeft(s))

RECURSIVE DigitsValue(_, _)
DigitsValue(s, acc) ==
    IF s = << >> THEN acc ELSE DigitsValue(Tail(s), 10 * acc + DigitValue(Head(s)))

ValueError == [ok |-> FALSE, value |-> 0]

ParseFloat(line) ==
    LET t == Strip(line)
        signed == t # << >> /\ Head(t) \in {"-", "+"}
        body == IF signed THEN Tail(t) ELSE t
    IN  IF body = << >> \/ \E i \in 1..Len(body) : ~IsDigit(body[i])
        THEN ValueError
        ELSE [ok |-> TRUE,
              value |-> IF signed /\ Head(t) = "-"
                        THEN 0 - DigitsValue(body, 0) ELSE DigitsValue(body, 0)]

\* ------------------------------------------------------------ filters
\* MovingAverageFilter.filter / MedianFilter.filter: the window after the
\* append, and the output computed from it.
FilterAppendUnbounded(values, value, window) == Append(values, value)

FilterAppend(values, value, window) == DequeAppend(values, value, window)

MovingAverageOutput(values) == Mean(values)

MedianOutput(values) == Median(values)

FilterOutput(ftype, values) ==
    IF ftype = "moving_average" THEN MovingAverageOutput(values)
    ELSE MedianOutput(values)

\* ButterworthFilter with order 1 and a cutoff of a quarter of the sampling
\* rate, where signal.butter gives b = [0.5, 0.5] and a = [1, 0] exactly.
\* ButterB and ButterA hold b and a in halves, and z holds twice the state
\* vector, so that lfilter_zi(b, a) = [0.5] is <<1>>.
ButterB == <<1, 1>>

ButterA == <<2, 0>>

LfilterZi == <<1>>

\* ButterworthFilter.__init__: with scipy the IIR filter, without it the RC
\* filter.
ButterworthNew(use_scipy) ==
    IF use_scipy
    THEN [use_scipy |-> TRUE, z |-> LfilterZi, initialized |-> FALSE]
    ELSE [use_scipy |-> FALSE, filtered_value |-> None]

\* signal.lfilter(b, a, [value], zi=z) for order 1: the output and the
\* state after it.
Lfilter(value, z) ==
    LET y == (ButterB[1] * value + z[1]) \div 2
    IN  [out |-> y, z |-> <<ButterB[2] * value - ButterA[2] * y>>]

\* The RC filter's value is a polynomial in alpha with integer
\* coefficients, [poly |-> c] for c[1] + c[2] * alpha + ...; this is
\* alpha * value + (1 - alpha) * filtered.
RcStep(filtered, value) ==
    LET c == filtered.poly
    IN  [poly |-> [i \in 1..(Len(c) + 1) |->
                      (IF i <= Len(c) THEN c[i] ELSE 0)
                      + (IF i = 2 THEN value ELSE 0)
                      - (IF i >= 2 THEN c[i - 1] ELSE 0)]]

\* ButterworthFilter.filter: the value returned and the object after it.
ButterworthFilter(object, value) ==
    IF object.use_scipy
    THEN LET z0 == IF object.initialized THEN object.z
                   ELSE [i \in 1..Len(object.z) |-> object.z[i] * value]
             r == Lfilter(value, z0)
         IN  [out |-> r.out,
              next |-> [use_scipy |-> TRUE, z |-> r.z, initialized |-> TRUE]]
    ELSE LET filtered == IF object.filtered_value = None
                         THEN [poly |-> <<value>>]
                         ELSE RcStep(object.filtered_value, value)
         IN  [out |-> filtered,
              next |-> [use_scipy |-> FALSE, filtered_value |-> filtered]]

\* ButterworthFilter.reset
ButterworthResetKeepsInitialized(object) ==
    IF object.use_scipy
    THEN [object EXCEPT !.z = LfilterZi]
    ELSE [object EXCEPT !.filtered_value = None]

ButterworthReset(object) ==
    IF object.use_scipy
    THEN [object EXCEPT !.z = LfilterZi, !.initialized = FALSE]
    ELSE [object EXCEPT !.filtered_value = None]

\* filter(value) of the filter object of the given type, as an action on
\* the object alone: the calls made and the values returned are recorded.
FilterCall(value) ==
    /\ last_op' = "filter"
    /\ events' = << >>
    /\ fed' = Append(fed, [value |-> value])
    /\ IF filter_type = "butterworth"
       THEN LET r == ButterworthFilter(butter, value)
            IN  /\ butter' = r.next
                /\ ret' = [out |-> r.out]
                /\ outs' = Append(outs, r.out)
                /\ UNCHANGED filter_values
       ELSE LET window == FilterAppend(filter_values, value, ObjectWindow)
                out == FilterOutput(filter_type, window)
            IN  /\ filter_values' = window
                /\ ret' = [out |-> out]
                /\ outs' = Append(outs, out)
                /\ UNCHANGED butter
    /\ UNCHANGED <<buffer, max_size, filter_type, calibration_result,
                   calibration_mode, calVars, appended, now, min_samples, files,
                   statistics, max_buffer_size, call_stack,
                   event_queue, heldVars>>

\* reset() of the filter object.
FilterReset ==
    /\ last_op' = "reset"
    /\ ret' = None
    /\ events' = << >>
    /\ fed' = Append(fed, [reset |-> TRUE])
    /\ IF filter_type = "butterworth"
       THEN butter' = ButterworthReset(butter) /\ UNCHANGED filter_values
       ELSE filter_values' = << >> /\ UNCHANGED butter
    /\ UNCHANGED <<buffer, max_size, filter_type, calibration_result,
                   calibration_mode, calVars, appended, now, min_samples, files,
                   outs, statistics, max_buffer_size, call_stack,
                   event_queue, heldVars>>

\* ------------------------------------------------------------- rationals
\* Results of the regression are exact rationals [num, den] with den > 0, in
\* lowest terms; NaN and NegInf are the IEEE values of 0.0/0.0 and of
\* 1 - x/0.0.
RECURSIVE Gcd(_, _)
Gcd(a, b) == IF b = 0 THEN a ELSE Gcd(b, a % b)

Frac(n, d) ==
    LET g == Gcd(Abs(n), Abs(d))
        sgn == IF d < 0 THEN 0 - 1 ELSE 1
    IN  [num |-> sgn * (n \div g), den |-> sgn * (d \div g)]

NaN == [nan |-> TRUE]

NegInf == [inf |-> 0 - 1]

IsRat(x) == DOMAIN x = {"num", "den"}

\* x < y and x > y and x <= y as IEEE compares: false as soon as one is NaN.
NumLess(x, y) ==
    IF x = NaN \/ y = NaN THEN FALSE
    ELSE IF y = NegInf THEN FALSE
    ELSE IF x = NegInf THEN TRUE
    ELSE x.num * y.den < y.num * x.den

NumGreater(x, y) == NumLess(y, x)

NumLessEq(x, y) ==
    IF x = NaN \/ y = NaN THEN FALSE
    ELSE IF x = NegInf THEN TRUE
    ELSE IF y = NegInf THEN FALSE
    ELSE x.num * y.den <= y.num * x.den

RatAdd(x, y) == Frac(x.num * y.den + y.num * x.den, x.den * y.den)

\* ------------------------------------------------------ CalibrationPoint
CalibrationPoint(weight, readings, time, quality) ==
    [reference_weight |-> weight, sensor_readings |-> readings,
     collection_time |-> time, quality_score |-> quality]

\* average_reading: np.mean of the readings, 0.0 for none.
AverageReading(point) ==
    IF point.sensor_readings = << >> THEN Frac(0, 1)
    ELSE Frac(SeqSum(point.sensor_readings), Len(point.sensor_readings))

\* cv_percentage > max_cv, with cv = std / avg * 100 (0.0 when avg is 0, and
\* std is 0.0 for a single reading): for a positive sum of the readings,
\* 100 * sqrt(n*Q - S^2) > max_cv * S.
CvExceeds(point, max_cv) ==
    LET r == point.sensor_readings
    IN  /\ Len(r) > 1
        /\ SeqSum(r) > 0
        /\ 10000 * ScaledVar(r) > max_cv * max_cv * SeqSum(r) * SeqSum(r)

\* _evaluate_point_quality, in percent.
EvaluatePointQuality(point, max_cv, min_count) ==
    LET q1 == IF CvExceeds(point, max_cv) THEN 50 ELSE 100
        q2 == IF Len(point.sensor_readings) < min_count THEN (q1 * 7) \div 10 ELSE q1
    IN  IF q2 < 0 THEN 0 ELSE IF q2 > 100 THEN 100 ELSE q2

\* ------------------------------------------------------------ regression
\* The data of a fit: x = the points' mean readings, y = their weights.  The
\* means are brought to the common denominator den, so xs[i] / den is the
\* mean reading of point i.
RECURSIVE Product(_)
Product(s) == IF s = << >> THEN 1 ELSE Head(s) * Product(Tail(s))

FitData(points) ==
    LET means == [i \in 1..Len(points) |-> AverageReading(points[i])]
        den == Product([i \in 1..Len(points) |-> means[i].den])
    IN  [den |-> den,
         xs |-> [i \in 1..Len(points) |-> means[i].num * (den \div means[i].den)],
         ys |-> [i \in 1..Len(points) |-> points[i].reference_weight]]

SeqDot(s, t) == SeqSum([i \in 1..Len(s) |-> s[i] * t[i]])

\* n * Sxx, n * Sxy, n * Syy of the data.
Sxx(d) == Len(d.xs) * SeqSumSq(d.xs) - SeqSum(d.xs) * SeqSum(d.xs)

Sxy(d) == Len(d.xs) * SeqDot(d.xs, d.ys) - SeqSum(d.xs) * SeqSum(d.ys)

Syy(d) == Len(d.ys) * SeqSumSq(d.ys) - SeqSum(d.ys) * SeqSum(d.ys)

\* scipy.stats.linregress on data whose x values are all identical: recent
\* versions raise ValueError, older ones divide 0.0 by 0.0.
LinregressBuilds == {"raises", "divides"}

\* _linear_regression: coefficients (slope, intercept), r_value ** 2, and
\* the square of the RMSE.  linregress sets r = 0.0 when x or y has no
\* spread.
LinearRegressionInterceptFirst(d) ==
    LET n == Len(d.xs)
    IN  IF Sxx(d) = 0
        THEN [coefficients |-> <<NaN, NaN>>, r_squared |-> Frac(0, 1), rmse_sq |-> NaN]
        ELSE [coefficients |->
                 <<Frac(SeqSum(d.ys) * Sxx(d) - Sxy(d) * SeqSum(d.xs), n * Sxx(d)),
                   Frac(Sxy(d) * d.den, Sxx(d))>>,
              r_squared |-> IF Syy(d) = 0 THEN Frac(0, 1)
                            ELSE Frac(Sxy(d) * Sxy(d), Sxx(d) * Syy(d)),
              rmse_sq |-> Frac(Sxx(d) * Syy(d) - Sxy(d) * Sxy(d), n * n * Sxx(d))]

LinearRegression(d) ==
    LET n == Len(d.xs)
    IN  IF Sxx(d) = 0
        THEN [coefficients |-> <<NaN, NaN>>, r_squared |-> Frac(0, 1), rmse_sq |-> NaN]
        ELSE [coefficients |->
                 <<Frac(Sxy(d) * d.den, Sxx(d)),
                   Frac(SeqSum(d.ys) * Sxx(d) - Sxy(d) * SeqSum(d.xs), n * Sxx(d))>>,
              r_squared |-> IF Syy(d) = 0 THEN Frac(0, 1)
                            ELSE Frac(Sxy(d) * Sxy(d), Sxx(d) * Syy(d)),
              rmse_sq |-> Frac(Sxx(d) * Syy(d) - Sxy(d) * Sxy(d), n * n * Sxx(d))]

\* np.polyfit of degree deg on data with at most deg + 1 distinct x values:
\* the least-squares polynomial takes, at each x, the mean of the y values
\* given for that x.
DistinctXs(d) == { d.xs[i] : i \in 1..Len(d.xs) }

PolyfitInterpolates(d, deg) == Cardinality(DistinctXs(d)) <= deg + 1

\* Sum over the x values of m * sum(y^2) - sum(y)^2 over m, for the m points
\* at that x: the residual sum of squares.
GroupResidual(d, x) ==
    LET idx == { i \in 1..Len(d.xs) : d.xs[i] = x }
        m == Cardinality(idx)
        RECURSIVE Sum(_), SumSq(_)
        Sum(S) == IF S = {} THEN 0
                  ELSE LET i == CHOOSE j \in S : TRUE IN d.ys[i] + Sum(S \ {i})
        SumSq(S) == IF S = {} THEN 0
                    ELSE LET i == CHOOSE j \in S : TRUE
                         IN  d.ys[i] * d.ys[i] + SumSq(S \ {i})
    IN  Frac(m * SumSq(idx) - Sum(idx) * Sum(idx), m)

RECURSIVE ResidualSum(_, _)
ResidualSum(d, xset) ==
    IF xset = {} THEN Frac(0, 1)
    ELSE LET x == CHOOSE v \in xset : TRUE
         IN  RatAdd(GroupResidual(d, x), ResidualSum(d, xset \ {x}))

\* The coefficients of the fitted polynomial are kept as the fit they come
\* from, not expanded: a tuple that holds the degree and the data.
Polyfit(d, deg) == <<[polyfit |-> deg, den |-> d.den, xs |-> d.xs, ys |-> d.ys]>>

\* 0.0 / 0.0 when the residual is computed as exactly 0.0, as it is for
\* weights that are all 0; a residual that rounding leaves positive gives
\* 1 - inf.
ZeroSpreadRSquared(d) ==
    IF \A i \in 1..Len(d.ys) : d.ys[i] = 0 THEN {NaN} ELSE {NaN, NegInf}

\* _polynomial_regression: R^2 = 1 - ss_res / ss_tot.
PolynomialRegression(d, deg, zero_spread_r2) ==
    LET n == Len(d.xs)
        ss_res == ResidualSum(d, DistinctXs(d))
    IN  [coefficients |-> Polyfit(d, deg),
         r_squared |-> IF Syy(d) = 0 THEN zero_spread_r2
                       ELSE Frac(ss_res.den * Syy(d) - n * ss_res.num,
                                 ss_res.den * Syy(d)),
         rmse_sq |-> Frac(ss_res.num, n * ss_res.den)]

\* _validate_calibration, on r_squared, rmse and the coefficients of a fit.
MinRSquared == Frac(95, 100)

MaxRmseSq == Frac(1, 100)

ValidateCalibration(method, fit) ==
    IF NumLess(fit.r_squared, MinRSquared) THEN FALSE
    ELSE IF NumGreater(fit.rmse_sq, MaxRmseSq) THEN FALSE
    ELSE IF method = "linear" /\ NumLessEq(fit.coefficients[1], Frac(0, 1)) THEN FALSE
    ELSE TRUE

\* --------------------------------------------------- CalibrationResult.apply
\* The linear curve; the pipeline is given curves whose
\* value at every sample it is fed is an integer.
ResultApply(result, sensor_value) ==
    LET slope == result.coefficients[1]
        intercept == result.coefficients[2]
    IN  (slope.num * sensor_value * intercept.den + intercept.num * slope.den)
            \div (slope.den * intercept.den)

\* ------------------------------------------------------------ DataProcessor
\* What a listener sees of the history when a signal reaches it.
PipeSeen(buf) ==
    [length |-> Len(buf), newest |-> IF buf = << >> THEN None ELSE buf[Len(buf)]]

RawValues(dps) == [i \in 1..Len(dps) |-> dps[i].raw_value]

\* _calculate_quality_score, in percent.
CalculateQualityScoreNoUpperLimit(value, buf) ==
    LET ranged == IF value < 0 THEN 50 ELSE 100
        recent_data == BufferGetLatest(buf, 5)
        recent_values == RawValues(LastN(recent_data, 3))
        quality ==
            IF Len(recent_data) >= 3 /\ DeviatesMoreThan(value, recent_values, 3)
            THEN (ranged * 7) \div 10
            ELSE ranged
    IN  IF quality < 0 THEN 0 ELSE IF quality > 100 THEN 100 ELSE quality

CalculateQualityScore(value, buf) ==
    LET ranged == IF value < 0 \/ value > 10000 THEN 50 ELSE 100
        recent_data == BufferGetLatest(buf, 5)
        recent_values == RawValues(LastN(recent_data, 3))
        quality ==
            IF Len(recent_data) >= 3 /\ DeviatesMoreThan(value, recent_values, 3)
            THEN (ranged * 7) \div 10
            ELSE ranged
    IN  IF quality < 0 THEN 0 ELSE IF quality > 100 THEN 100 ELSE quality

\* dp.filtered_value or dp.raw_value: a filtered value of 0.0 is falsy.
FilteredOrRaw(dp) ==
    IF dp.filtered_value # 0 THEN dp.filtered_value ELSE dp.raw_value

IsOutlierIgnoringMode(data_point, buf, mode) ==
    IF Len(buf) < MinOutlierSamples THEN FALSE
    ELSE LET recent_data == BufferGetLatest(buf, StatisticsWindow)
             values == [i \in 1..Len(recent_data) |-> FilteredOrRaw(recent_data[i])]
         IN  IF ScaledVar(values) = 0 THEN FALSE
             ELSE DeviatesMoreThan(data_point.filtered_value, values, OutlierThreshold)

IsOutlierUngated(data_point, buf, mode) ==
    IF mode \/ buf = << >> THEN FALSE
    ELSE LET recent_data == BufferGetLatest(buf, StatisticsWindow)
             values == [i \in 1..Len(recent_data) |-> FilteredOrRaw(recent_data[i])]
         IN  IF ScaledVar(values) = 0 THEN FALSE
             ELSE DeviatesMoreThan(data_point.filtered_value, values, OutlierThreshold)

IsOutlierAgainstLastTen(data_point, buf, mode) ==
    IF mode THEN FALSE
    ELSE IF Len(buf) < MinOutlierSamples THEN FALSE
    ELSE LET recent_data == BufferGetLatest(buf, MinOutlierSamples)
             values == [i \in 1..Len(recent_data) |-> FilteredOrRaw(recent_data[i])]
         IN  IF ScaledVar(values) = 0 THEN FALSE
             ELSE DeviatesMoreThan(data_point.filtered_value, values, OutlierThreshold)

\* _is_outlier, evaluated before the sample is appended.
IsOutlier(data_point, buf, mode) ==
    IF mode THEN FALSE
    ELSE IF Len(buf) < MinOutlierSamples THEN FALSE
    ELSE LET recent_data == BufferGetLatest(buf, StatisticsWindow)
             values == [i \in 1..Len(recent_data) |-> FilteredOrRaw(recent_data[i])]
         IN  IF ScaledVar(values) = 0 THEN FALSE
             ELSE DeviatesMoreThan(data_point.filtered_value, values, OutlierThreshold)

\* A filter that is used whenever one is configured, whatever the quality.
UsesFilterWhateverQuality(ftype, quality) == ftype # "none"

\* The filter is used when one is configured and the quality is high enough.
UsesFilter(ftype, quality) == ftype # "none" /\ quality >= QualityThreshold

ProcessRejectedFeedsFilter(line) ==
    /\ ~ParseFloat(line).ok
    /\ last_op' = "process_raw_data"
    /\ ret' = None
    /\ events' = <<Event("processing_error", "ValueError", PipeSeen(buffer))>>
    /\ filter_values' = FilterAppend(filter_values, 0, FilterWindow)
    /\ UNCHANGED <<buffer, max_size, filter_type, calibration_result,
                   calibration_mode, appended, calVars, now, restVars, heldVars>>

\* process_raw_data: the ValueError branch.
ProcessRejected(line) ==
    /\ ~ParseFloat(line).ok
    /\ last_op' = "process_raw_data"
    /\ ret' = None
    /\ events' = <<Event("processing_error", "ValueError", PipeSeen(buffer))>>
    /\ UNCHANGED <<pipeVars, appended, calVars, now, restVars, heldVars>>

\* process_raw_data: a line that parses.
ProcessAcceptedDropsOutliers(line) ==
    /\ ParseFloat(line).ok
    /\ LET raw_value == ParseFloat(line).value
           quality == CalculateQualityScore(raw_value, buffer)
           filtering == UsesFilter(filter_type, quality)
           window == IF filtering
                     THEN FilterAppend(filter_values, raw_value, FilterWindow)
                     ELSE filter_values
           filtered == IF filtering THEN FilterOutput(filter_type, window)
                       ELSE raw_value
           calibrated == IF calibration_result # None
                         THEN ResultApply(calibration_result, filtered)
                         ELSE filtered
           data_point == DataPoint(raw_value, filtered, calibrated, quality)
           outlier == IsOutlier(data_point, buffer, calibration_mode)
           stored == IF outlier THEN buffer
                     ELSE BufferAppend(buffer, data_point, max_size)
       IN  /\ filter_values' = window
           /\ buffer' = stored
           /\ events' =
                (IF outlier
                 THEN <<Event("outlier_detected", data_point, PipeSeen(buffer))>>
                 ELSE << >>)
                \o <<Event("data_processed", data_point, PipeSeen(stored))>>
           /\ ret' = data_point
    /\ last_op' = "process_raw_data"
    /\ UNCHANGED <<max_size, filter_type, calibration_result, calibration_mode,
                   appended, calVars, now, restVars, heldVars>>

\* process_raw_data with the curve applied to the raw value.
ProcessAcceptedCalibratesRaw(line) ==
    /\ ParseFloat(line).ok
    /\ LET raw_value == ParseFloat(line).value
           quality == CalculateQualityScore(raw_value, buffer)
           filtering == UsesFilter(filter_type, quality)
           window == IF filtering
                     THEN FilterAppend(filter_values, raw_value, FilterWindow)
                     ELSE filter_values
           filtered == IF filtering THEN FilterOutput(filter_type, window)
                       ELSE raw_value
           calibrated == IF calibration_result # None
                         THEN ResultApply(calibration_result, raw_value)
                         ELSE filtered
           data_point == DataPoint(raw_value, filtered, calibrated, quality)
           outlier == IsOutlier(data_point, buffer, calibration_mode)
           stored == BufferAppend(buffer, data_point, max_size)
       IN  /\ filter_values' = window
           /\ buffer' = stored
           /\ events' =
                (IF outlier
                 THEN <<Event("outlier_detected", data_point, PipeSeen(buffer))>>
                 ELSE << >>)
                \o <<Event("data_processed", data_point, PipeSeen(stored))>>
           /\ ret' = data_point
    /\ last_op' = "process_raw_data"
    /\ UNCHANGED <<max_size, filter_type, calibration_result, calibration_mode,
                   appended, calVars, now, restVars, heldVars>>

ProcessAccepted(line) ==
    /\ ParseFloat(line).ok
    /\ LET raw_value == ParseFloat(line).value
           quality == CalculateQualityScore(raw_value, buffer)
           filtering == UsesFilter(filter_type, quality)
           window == IF filtering
                     THEN FilterAppend(filter_values, raw_value, FilterWindow)
                     ELSE filter_values
           filtered == IF filtering THEN FilterOutput(filter_type, window)
                       ELSE raw_value
           calibrated == IF calibration_result # None
                         THEN ResultApply(calibration_result, filtered)
                         ELSE filtered
           data_point == DataPoint(raw_value, filtered, calibrated, quality)
           outlier == IsOutlier(data_point, buffer, calibration_mode)
           stored == BufferAppend(buffer, data_point, max_size)
       IN  /\ filter_values' = window
           /\ buffer' = stored
           /\ events' =
                (IF outlier
                 THEN <<Event("outlier_detected", data_point, PipeSeen(buffer))>>
                 ELSE << >>)
                \o <<Event("data_processed", data_point, PipeSeen(stored))>>
           /\ ret' = data_point
    /\ last_op' = "process_raw_data"
    /\ UNCHANGED <<max_size, filter_type, calibration_result, calibration_mode,
                   appended, calVars, now, restVars, heldVars>>

ProcessRawData(line) == ProcessRejected(line) \/ ProcessAccepted(line)

\* clear_buffer: the history and the filter window are emptied.
ClearBuffer ==
    /\ buffer' = BufferClear(buffer)
    /\ filter_values' = << >>
    /\ last_op' = "clear_buffer"
    /\ ret' = None
    /\ events' = << >>
    /\ UNCHANGED <<max_size, filter_type, calibration_result, calibration_mode,
                   appended, calVars, now, restVars, heldVars>>

\* update_config: the configuration is replaced and the filter made anew;
\* the buffer stays the deque it was made as.
UpdateConfig(new_size, new_filter_type) ==
    /\ last_op' = "update_config"
    /\ ret' = None
    /\ events' = << >>
    /\ max_buffer_size' = new_size
    /\ filter_type' = new_filter_type
    /\ filter_values' = << >>
    /\ UNCHANGED <<buffer, max_size, calibration_result, calibration_mode,
                   appended, calVars, now, min_samples, files, butter, fed, outs,
                   statistics, call_stack, event_queue, heldVars>>

\* ----------------------------------------------------- StatisticsSnapshot
\* The count, mean, minimum, maximum and trend of a snapshot; its other
\* fields (std, median, percentiles, timestamp) are left out.  The trend is
\* "stable" by default, and __post_init__ sets min_value and max_value to
\* 0.0 when count is 0.
StatisticsSnapshot(count, mean, min_value, max_value) ==
    [count |-> count, mean |-> mean,
     min_value |-> IF count = 0 THEN 0 ELSE min_value,
     max_value |-> IF count = 0 THEN 0 ELSE max_value,
     trend |-> "stable"]

\* StatisticsSnapshot(): the defaults count 0, mean 0.0, min inf, max -inf.
DefaultSnapshot == StatisticsSnapshot(0, Frac(0, 1), [inf |-> 1], NegInf)

RECURSIVE SeqMin(_)
SeqMin(s) ==
    IF Len(s) = 1 THEN Head(s)
    ELSE LET m == SeqMin(Tail(s)) IN IF Head(s) < m THEN Head(s) ELSE m

RECURSIVE SeqMax(_)
SeqMax(s) ==
    IF Len(s) = 1 THEN Head(s)
    ELSE LET m == SeqMax(Tail(s)) IN IF Head(s) > m THEN Head(s) ELSE m

\* diff_ratio = (mean_second - mean_first) / mean_first of the two halves
\* of the values, 0 when mean_first is 0: with the sums s1, s2 of n1, n2
\* values, (s2 * n1 - s1 * n2) / (n2 * s1).
DiffRatio(values) ==
    LET n == Len(values)
        first_half == SubSeq(values, 1, n \div 2)
        second_half == SubSeq(values, n \div 2 + 1, n)
        s1 == SeqSum(first_half)
        s2 == SeqSum(second_half)
    IN  IF s1 = 0 THEN Frac(0, 1)
        ELSE Frac(s2 * Len(first_half) - s1 * Len(second_half),
                  Len(second_half) * s1)

\* The trend with the thresholds included.
TrendOfInclusive(values) ==
    IF Len(values) < 10 THEN "stable"
    ELSE IF NumLessEq(Frac(5, 100), DiffRatio(values)) THEN "increasing"
    ELSE IF NumLessEq(DiffRatio(values), Frac(0 - 5, 100)) THEN "decreasing"
    ELSE "stable"

\* The trend of a snapshot: computed from 10 values on, against 0.05.
TrendOf(values) ==
    IF Len(values) < 10 THEN "stable"
    ELSE IF NumGreater(DiffRatio(values), Frac(5, 100)) THEN "increasing"
    ELSE IF NumLess(DiffRatio(values), Frac(0 - 5, 100)) THEN "decreasing"
    ELSE "stable"

\* DataPoint.value for each sample: the calibrated value, which
\* process_raw_data always sets.
StatisticsValues(data) == [i \in 1..Len(data) |-> data[i].calibrated_value]

\* _update_statistics, the slot of the statistics timer: nothing at all on an
\* empty history, else a new snapshot of the last statistics_window samples,
\* emitted with statistics_updated.
UpdateStatistics ==
    /\ last_op' = "_update_statistics"
    /\ ret' = None
    /\ LET data == BufferGetLatest(buffer, StatisticsWindow)
           values == StatisticsValues(data)
       IN  IF data = << >>
           THEN /\ events' = << >>
                /\ UNCHANGED statistics
           ELSE /\ statistics' =
                     [StatisticsSnapshot(Len(values),
                                         Frac(SeqSum(values), Len(values)),
                                         SeqMin(values), SeqMax(values))
                        EXCEPT !.trend = TrendOf(values)]
                /\ events' = <<Event("statistics_updated", statistics',
                                     PipeSeen(buffer))>>
    /\ UNCHANGED <<pipeVars, appended, calVars, now, min_samples, files, butter,
                   fed, outs, max_buffer_size, call_stack,
                   event_queue, heldVars>>

\* get_statistics
GetStatistics ==
    /\ last_op' = "get_statistics"
    /\ ret' = statistics
    /\ events' = << >>
    /\ UNCHANGED <<pipeVars, appended, calVars, now, restVars, heldVars>>

\* set_calibration(result), set_calibration(None), and an argument that is
\* no CalibrationResult.
NotAResult == [not_a_result |-> TRUE]

SetCalibrationSilentRemoval(arg) ==
    /\ calibration_result' = IF arg = NotAResult THEN calibration_result ELSE arg
    /\ events' = IF arg = NotAResult \/ arg = None THEN << >>
                 ELSE <<Event("calibration_status_changed", TRUE,
                              PipeSeen(buffer))>>
    /\ last_op' = "set_calibration"
    /\ ret' = None
    /\ UNCHANGED <<buffer, max_size, filter_type, filter_values, calibration_mode,
                   appended, calVars, now, restVars, heldVars>>

SetCalibration(arg) ==
    /\ calibration_result' = IF arg = NotAResult THEN calibration_result ELSE arg
    /\ events' = IF arg = NotAResult THEN << >>
                 ELSE <<Event("calibration_status_changed", arg # None,
                              PipeSeen(buffer))>>
    /\ last_op' = "set_calibration"
    /\ ret' = None
    /\ UNCHANGED <<buffer, max_size, filter_type, filter_values, calibration_mode,
                   appended, calVars, now, restVars, heldVars>>

\* is_calibrated()
IsCalibrated(result) == result # None

\* CalibrationResult.quality_grade
QualityGrade(r_squared) ==
    IF NumLessEq(Frac(99, 100), r_squared) THEN "Excellent"
    ELSE IF NumLessEq(Frac(95, 100), r_squared) THEN "Good"
    ELSE IF NumLessEq(Frac(90, 100), r_squared) THEN "Fair"
    ELSE "Poor"

\* get_calibration_info(); rmse is given by its square.
GetCalibrationInfo(result) ==
    IF result = None THEN None
    ELSE [method |-> result.method,
          quality_grade |-> QualityGrade(result.r_squared),
          r_squared |-> result.r_squared,
          rmse_sq |-> result.rmse_sq,
          validation_passed |-> result.validation_passed,
          created_time |-> result.created_time]

SetCalibrationMode(enabled) ==
    /\ calibration_mode' = enabled
    /\ last_op' = "set_calibration_mode"
    /\ ret' = None
    /\ events' = << >>
    /\ UNCHANGED <<buffer, max_size, filter_type, filter_values, calibration_result,
                   appended, calVars, now, restVars, heldVars>>

\* ------------------------------------------------------ CalibrationEngine
\* What a listener sees of the engine when a signal reaches it.
EngineSeen(st, points) == [state |-> st, n_points |-> Len(points)]

\* _set_state: the signal is emitted only when the state changes.
SetStateEvents(old_state, new_state, points) ==
    IF old_state # new_state
    THEN <<Event("state_changed", new_state, EngineSeen(new_state, points))>>
    ELSE << >>

\* A write through current_point reaches every list entry that is the same
\* object.
WriteThrough(points, alias, point) ==
    [i \in 1..Len(points) |-> IF i \in alias THEN point ELSE points[i]]

\* An outlier test of the engine with the configured threshold itself.
EngineIsOutlierUnrelaxed(value, readings) ==
    IF Len(readings) < 10 THEN FALSE
    ELSE LET recent == LastN(readings, 10)
         IN  IF ScaledVar(recent) = 0 THEN FALSE
             ELSE DeviatesMoreThan(value, recent, EngineOutlierThreshold)

\* _is_outlier of the engine: z-score against the last 10 buffered readings,
\* with 3 times the configured threshold.
EngineIsOutlier(value, readings) ==
    IF Len(readings) < 10 THEN FALSE
    ELSE LET recent == LastN(readings, 10)
         IN  IF ScaledVar(recent) = 0 THEN FALSE
             ELSE DeviatesMoreThan(value, recent, EngineOutlierThreshold * 3)

\* The result the wizard keeps shares its point objects with the engine (the
\* list is copied, the points are not): a write through current_point
\* reaches them, and a new current_point (fresh) is none of them.
\* The collection page, when there is one, is the caller of
\* start_point_collection (start_collection sets is_collecting first) and
\* has its slot on_point_collected connected to point_collected: the slot
\* runs inside the emitting call and moves the page to the next weight.
PageFollows(p, op, evs) ==
    IF p = None THEN None
    ELSE LET called == IF op = "start_point_collection"
                       THEN [p EXCEPT !.is_collecting = TRUE] ELSE p
         IN  IF \E i \in 1..Len(evs) : evs[i].sig = "point_collected"
             THEN [called EXCEPT !.is_collecting = FALSE,
                                 !.current_step = @ + 1]
             ELSE called

HeldFollows(fresh) ==
    /\ held_alias' = IF fresh THEN {} ELSE held_alias
    /\ held' = IF held = None THEN None
               ELSE [held EXCEPT
                        !.points = WriteThrough(@, held_alias', current_point')]
    /\ page' = PageFollows(page, last_op', events')

\* start_calibration is refused in every state but IDLE.
CalibrationRefusedWhileCollecting == state = "collecting"

CalibrationRefused == state # "idle"

\* start_calibration
StartCalibration(reference_weights) ==
    /\ last_op' = "start_calibration"
    /\ IF CalibrationRefused
       THEN /\ ret' = False
            /\ UNCHANGED calVars
       ELSE /\ ret' = True
            /\ calibration_points' = << >>
            /\ aliased' = {}
            /\ current_step' = 0
            /\ total_steps' = Len(reference_weights)
            /\ UNCHANGED <<state, current_point, current_readings,
                           collection_start_time, stabilization_start_time,
                           target_weight, is_stabilizing, timer_active>>
    /\ events' = << >>
    /\ UNCHANGED <<pipeVars, appended, now, restVars, heldVars>>

\* start_point_collection is refused while a collection is in progress.
CollectionInProgressNeverRefused == FALSE

CollectionInProgress == state = "collecting" /\ current_point # None

\* start_point_collection; the point is a new object, none of the list.
StartPointCollectionReusesPoint(reference_weight) ==
    /\ last_op' = "start_point_collection"
    /\ IF CollectionInProgress
       THEN /\ ret' = False
            /\ events' = << >>
            /\ UNCHANGED calVars
       ELSE LET point == CalibrationPoint(reference_weight, << >>, now, 100)
            IN  /\ ret' = True
                /\ state' = "collecting"
                /\ target_weight' = [value |-> reference_weight]
                /\ current_readings' = << >>
                /\ collection_start_time' = now
                /\ stabilization_start_time' = now
                /\ is_stabilizing' = TRUE
                /\ current_point' = point
                /\ calibration_points' = WriteThrough(calibration_points, aliased, point)
                /\ timer_active' = TRUE
                /\ events' = SetStateEvents(state, "collecting", calibration_points)
                             \o <<Event("progress_updated", 0,
                                        EngineSeen("collecting", calibration_points))>>
                /\ UNCHANGED <<current_step, total_steps, aliased>>
    /\ UNCHANGED <<pipeVars, appended, now, restVars>>
    /\ HeldFollows(FALSE)

StartPointCollection(reference_weight) ==
    /\ last_op' = "start_point_collection"
    /\ IF CollectionInProgress
       THEN /\ ret' = False
            /\ events' = << >>
            /\ UNCHANGED calVars
       ELSE /\ ret' = True
            /\ state' = "collecting"
            /\ target_weight' = [value |-> reference_weight]
            /\ current_readings' = << >>
            /\ collection_start_time' = now
            /\ stabilization_start_time' = now
            /\ is_stabilizing' = TRUE
            /\ current_point' = CalibrationPoint(reference_weight, << >>, now, 100)
            /\ aliased' = {}
            /\ timer_active' = TRUE
            /\ events' = SetStateEvents(state, "collecting", calibration_points)
                         \o <<Event("progress_updated", 0,
                                    EngineSeen("collecting", calibration_points))>>
            /\ UNCHANGED <<current_step, total_steps, calibration_points>>
    /\ UNCHANGED <<pipeVars, appended, now, restVars>>
    /\ HeldFollows(~CollectionInProgress)

\* add_sensor_reading that looks at the point only, not at the state.
ReadingIgnoredWithoutPoint == current_point = None

\* add_sensor_reading
ReadingIgnored == state # "collecting" \/ current_point = None

AddSensorReadingFromBuffer(sensor_value) ==
    /\ last_op' = "add_sensor_reading"
    /\ ret' = None
    /\ IF ReadingIgnored
       THEN /\ events' = << >>
            /\ UNCHANGED calVars
       ELSE IF is_stabilizing
       THEN IF Len(current_readings) >= 20 /\ EngineIsOutlier(sensor_value, current_readings)
            THEN /\ events' = << >>
                 /\ UNCHANGED calVars
            ELSE /\ current_readings' =
                     LET added == Append(current_readings, sensor_value)
                     IN  IF Len(added) > 50 THEN Tail(added) ELSE added
                 /\ events' = <<Event("data_point_added", sensor_value,
                                      EngineSeen(state, calibration_points))>>
                 /\ UNCHANGED <<state, current_step, total_steps, calibration_points,
                                current_point, aliased, collection_start_time,
                                stabilization_start_time, target_weight,
                                is_stabilizing, timer_active>>
       ELSE IF EngineIsOutlier(sensor_value, current_readings)
            THEN /\ events' = << >>
                 /\ UNCHANGED calVars
            ELSE LET point == [current_point EXCEPT
                                  !.sensor_readings =
                                      Append(current_readings, sensor_value)]
                 IN  /\ current_readings' = Append(current_readings, sensor_value)
                     /\ current_point' = point
                     /\ calibration_points' =
                            WriteThrough(calibration_points, aliased, point)
                     /\ events' = <<Event("data_point_added", sensor_value,
                                          EngineSeen(state, calibration_points))>>
                     /\ UNCHANGED <<state, current_step, total_steps, aliased,
                                    collection_start_time, stabilization_start_time,
                                    target_weight, is_stabilizing, timer_active>>
    /\ UNCHANGED <<pipeVars, appended, now, restVars>>
    /\ HeldFollows(FALSE)

AddSensorReading(sensor_value) ==
    /\ last_op' = "add_sensor_reading"
    /\ ret' = None
    /\ IF ReadingIgnored
       THEN /\ events' = << >>
            /\ UNCHANGED calVars
       ELSE IF is_stabilizing
       THEN IF Len(current_readings) >= 20 /\ EngineIsOutlier(sensor_value, current_readings)
            THEN /\ events' = << >>
                 /\ UNCHANGED calVars
            ELSE /\ current_readings' =
                     LET added == Append(current_readings, sensor_value)
                     IN  IF Len(added) > 50 THEN Tail(added) ELSE added
                 /\ events' = <<Event("data_point_added", sensor_value,
                                      EngineSeen(state, calibration_points))>>
                 /\ UNCHANGED <<state, current_step, total_steps, calibration_points,
                                current_point, aliased, collection_start_time,
                                stabilization_start_time, target_weight,
                                is_stabilizing, timer_active>>
       ELSE IF EngineIsOutlier(sensor_value, current_readings)
            THEN /\ events' = << >>
                 /\ UNCHANGED calVars
            ELSE LET point == [current_point EXCEPT
                                  !.sensor_readings = Append(@, sensor_value)]
                 IN  /\ current_readings' = Append(current_readings, sensor_value)
                     /\ current_point' = point
                     /\ calibration_points' =
                            WriteThrough(calibration_points, aliased, point)
                     /\ events' = <<Event("data_point_added", sensor_value,
                                          EngineSeen(state, calibration_points))>>
                     /\ UNCHANGED <<state, current_step, total_steps, aliased,
                                    collection_start_time, stabilization_start_time,
                                    target_weight, is_stabilizing, timer_active>>
    /\ UNCHANGED <<pipeVars, appended, now, restVars>>
    /\ HeldFollows(FALSE)

\* complete_current_point returns False when there is nothing to complete.
NothingToComplete == current_point = None \/ current_readings = << >>

\* complete_current_point past that test: the quality is written to the
\* point, the timer stopped, the point appended, the state set to IDLE and
\* point_collected emitted, in this order.  before: the signals the caller
\* emitted first.
CompletePointEmitsFirst(before) ==
    LET point == [current_point EXCEPT
                     !.quality_score =
                         EvaluatePointQuality(current_point, MaxCvPercentage, min_samples)]
        points == Append(WriteThrough(calibration_points, aliased, point), point)
    IN  /\ current_point' = point
        /\ timer_active' = FALSE
        /\ calibration_points' = points
        /\ aliased' = aliased \cup {Len(points)}
        /\ state' = "idle"
        /\ events' = before
                     \o <<Event("point_collected", point,
                                EngineSeen(state, calibration_points))>>
                     \o SetStateEvents(state, "idle", points)
        /\ UNCHANGED <<current_step, total_steps, current_readings,
                       collection_start_time, stabilization_start_time,
                       target_weight, is_stabilizing>>

CompletePoint(before) ==
    LET point == [current_point EXCEPT
                     !.quality_score =
                         EvaluatePointQuality(current_point, MaxCvPercentage, min_samples)]
        points == Append(WriteThrough(calibration_points, aliased, point), point)
    IN  /\ current_point' = point
        /\ timer_active' = FALSE
        /\ calibration_points' = points
        /\ aliased' = aliased \cup {Len(points)}
        /\ state' = "idle"
        /\ events' = before \o SetStateEvents(state, "idle", points)
                     \o <<Event("point_collected", point, EngineSeen("idle", points))>>
        /\ UNCHANGED <<current_step, total_steps, current_readings,
                       collection_start_time, stabilization_start_time,
                       target_weight, is_stabilizing>>

CompleteCurrentPoint ==
    /\ last_op' = "complete_current_point"
    /\ IF NothingToComplete
       THEN /\ ret' = False
            /\ events' = << >>
            /\ UNCHANGED calVars
       ELSE /\ ret' = True
            /\ CompletePoint(<< >>)
    /\ UNCHANGED <<pipeVars, appended, now, restVars>>
    /\ HeldFollows(FALSE)

\* calculate_calibration needs 2 points.
InsufficientPointsBelowOne(points) == Len(points) < 1

InsufficientPoints(points) == Len(points) < 2

\* The fit of a method; an unknown method and the cubic spline fall back to
\* the linear regression.
Fit(method, d, zero_spread_r2) ==
    IF method = "polynomial_2" THEN PolynomialRegression(d, 2, zero_spread_r2)
    ELSE IF method = "polynomial_3" THEN PolynomialRegression(d, 3, zero_spread_r2)
    ELSE LinearRegression(d)

FitRaisesOnFailedValidation(method, d, build) ==
    /\ method \notin {"polynomial_2", "polynomial_3"}
    /\ \/ Sxx(d) = 0 /\ build = "raises"
       \/ Sxx(d) # 0 /\ ~ValidateCalibration(method, LinearRegression(d))

FitRaises(method, d, build) ==
    /\ method \notin {"polynomial_2", "polynomial_3"}
    /\ Sxx(d) = 0
    /\ build = "raises"

\* The polynomial fit is modelled where it interpolates.
FitModelled(method, d) ==
    /\ method = "polynomial_2" => PolyfitInterpolates(d, 2)
    /\ method = "polynomial_3" => PolyfitInterpolates(d, 3)

CalibrationResult(method, fit, points, time) ==
    [method |-> method, coefficients |-> fit.coefficients,
     r_squared |-> fit.r_squared, rmse_sq |-> fit.rmse_sq, points |-> points,
     created_time |-> time, validation_passed |-> ValidateCalibration(method, fit)]

CalculateCalibration(method, build, zero_spread_r2) ==
    /\ last_op' = "calculate_calibration"
    /\ IF InsufficientPoints(calibration_points)
       THEN /\ ret' = None
            /\ events' = << >>
            /\ UNCHANGED calVars
       ELSE LET d == FitData(calibration_points)
                processing == SetStateEvents(state, "processing", calibration_points)
            IN  /\ FitModelled(method, d)
                /\ IF FitRaises(method, d, build)
                   THEN /\ ret' = None
                        /\ state' = "error"
                        /\ events' = processing
                               \o <<Event("error_occurred", "ValueError",
                                          EngineSeen("processing", calibration_points))>>
                               \o SetStateEvents("processing", "error", calibration_points)
                   ELSE LET result == CalibrationResult(method,
                                          Fit(method, d, zero_spread_r2),
                                          calibration_points, now)
                        IN  /\ ret' = result
                            /\ state' = "completed"
                            /\ events' = processing
                                   \o SetStateEvents("processing", "completed",
                                                     calibration_points)
                                   \o <<Event("calibration_completed", result,
                                              EngineSeen("completed", calibration_points))>>
                /\ UNCHANGED <<current_step, total_steps, calibration_points,
                               current_point, aliased, current_readings,
                               collection_start_time, stabilization_start_time,
                               target_weight, is_stabilizing, timer_active>>
    /\ UNCHANGED <<pipeVars, appended, now, restVars, heldVars>>

\* cancel_calibration
CancelCalibrationKeepsTimer ==
    /\ last_op' = "cancel_calibration"
    /\ ret' = None
    /\ calibration_points' = << >>
    /\ current_point' = None
    /\ aliased' = {}
    /\ current_readings' = << >>
    /\ current_step' = 0
    /\ state' = "idle"
    /\ events' = SetStateEvents(state, "idle", << >>)
    /\ UNCHANGED <<total_steps, collection_start_time, stabilization_start_time,
                   target_weight, is_stabilizing, timer_active>>
    /\ UNCHANGED <<pipeVars, appended, now, restVars>>
    /\ HeldFollows(TRUE)

CancelCalibration ==
    /\ last_op' = "cancel_calibration"
    /\ ret' = None
    /\ timer_active' = FALSE
    /\ calibration_points' = << >>
    /\ current_point' = None
    /\ aliased' = {}
    /\ current_readings' = << >>
    /\ current_step' = 0
    /\ state' = "idle"
    /\ events' = SetStateEvents(state, "idle", << >>)
    /\ UNCHANGED <<total_steps, collection_start_time, stabilization_start_time,
                   target_weight, is_stabilizing>>
    /\ UNCHANGED <<pipeVars, appended, now, restVars>>
    /\ HeldFollows(TRUE)

\* min(int(elapsed / duration * 100), 100)
Progress(elapsed, duration) ==
    LET percent == (elapsed * 100) \div duration
    IN  IF percent > 100 THEN 100 ELSE percent

\* The completion check of _check_collection_progress: the point is
\* completed once the duration has elapsed with min_samples samples, and
\* after twice the duration with more than 10.
TickCompletesOnEither(elapsed, sample_count, min_count) ==
    IF elapsed >= CollectionDuration \/ sample_count >= min_count
    THEN sample_count > 0
    ELSE elapsed >= CollectionDuration * 2 /\ sample_count > 10

TickCompletesOnAnySample(elapsed, sample_count, min_count) ==
    IF elapsed >= CollectionDuration /\ sample_count >= min_count
    THEN sample_count > 0
    ELSE elapsed >= CollectionDuration * 2 /\ sample_count > 0

TickCompletes(elapsed, sample_count, min_count) ==
    IF elapsed >= CollectionDuration /\ sample_count >= min_count
    THEN sample_count > 0
    ELSE elapsed >= CollectionDuration * 2 /\ sample_count > 10

\* _check_collection_progress, the slot of collection_timer.
CheckCollectionProgress ==
    /\ timer_active
    /\ last_op' = "_check_collection_progress"
    /\ ret' = None
    /\ IF current_point = None \/ collection_start_time = 0
       THEN /\ events' = << >>
            /\ UNCHANGED calVars
       ELSE IF is_stabilizing
       THEN LET elapsed == now - stabilization_start_time
                seen == EngineSeen(state, calibration_points)
                report == <<Event("progress_updated",
                                  Progress(elapsed, StabilizationTime), seen)>>
            IN  IF elapsed >= StabilizationTime
                THEN LET point == [current_point EXCEPT !.sensor_readings = << >>]
                     IN  /\ is_stabilizing' = FALSE
                         /\ collection_start_time' = now
                         /\ current_point' = point
                         /\ calibration_points' =
                                WriteThrough(calibration_points, aliased, point)
                         /\ events' = report \o <<Event("progress_updated", 0, seen)>>
                         /\ UNCHANGED <<state, current_step, total_steps, aliased,
                                        current_readings, stabilization_start_time,
                                        target_weight, timer_active>>
                ELSE /\ events' = report
                     /\ UNCHANGED calVars
       ELSE LET elapsed == now - collection_start_time
                sample_count == Len(current_point.sensor_readings)
                report == <<Event("progress_updated",
                                  Progress(elapsed, CollectionDuration),
                                  EngineSeen(state, calibration_points))>>
                completes == TickCompletes(elapsed, sample_count, min_samples)
            IN  IF completes /\ ~NothingToComplete
                THEN CompletePoint(report)
                ELSE /\ events' = report
                     /\ UNCHANGED calVars
    /\ UNCHANGED <<pipeVars, appended, now, restVars>>
    /\ HeldFollows(FALSE)

\* time passes
AdvanceTime ==
    /\ now < MaxTime
    /\ now' = now + 1
    /\ UNCHANGED <<pipeVars, calVars, callVars, appended, restVars, heldVars>>

\* time passes, up to the limit
PassTime(limit) ==
    /\ now < limit
    /\ now' = now + 1
    /\ UNCHANGED <<pipeVars, calVars, callVars, appended, restVars, heldVars>>

\* The GUI thread runs the Qt event loop, the reader thread runs
\* SerialManager._read_loop; with no call in progress each is in its loop.
Threads == {"gui", "reader"}

IdleStacks == [t \in Threads |-> << >>]

\* No file written, no filter object on its own.
NoFiles == [f \in {"a.json"} |-> None]

InitRest ==
    /\ files = NoFiles
    /\ butter = None
    /\ fed = << >>
    /\ outs = << >>
    /\ statistics = DefaultSnapshot
    /\ max_buffer_size = max_size
    /\ held = None
    /\ held_alias = {}
    /\ page = None
    /\ call_stack = IdleStacks
    /\ event_queue = << >>

\* CalibrationEngine.__init__, with the min_samples of its configuration
InitEngineWith(config_min_samples) ==
    /\ min_samples = config_min_samples
    /\ state = "idle"
    /\ current_step = 0
    /\ total_steps = 5
    /\ calibration_points = << >>
    /\ current_point = None
    /\ aliased = {}
    /\ current_readings = << >>
    /\ collection_start_time = 0
    /\ stabilization_start_time = 0
    /\ target_weight = None
    /\ is_stabilizing = FALSE
    /\ timer_active = FALSE
    /\ now = 1

InitEngine == InitEngineWith(MinSamples)

\* --------------------------------------------------------------- SpecPipe
\* The pipeline with a small history, fed any line.  The history is too
\* short for the outlier check, which SpecOutlier covers.
PipeLines ==
    { <<"0">>, <<" ", "-", "1", "2", "\n">>,
      <<"a", "b", "c">>, << >>, <<"1", " ", "2">>,
      <<"1", "0", "0", "0", "8">> }

\* A linear curve with integer coefficients, as set_calibration receives it.
LinearCurve(slope, intercept) ==
    [method |-> "linear", coefficients |-> <<Frac(slope, 1), Frac(intercept, 1)>>,
     r_squared |-> Frac(1, 1), rmse_sq |-> Frac(0, 1), points |-> << >>,
     created_time |-> 1, validation_passed |-> TRUE]

PipeCurves == { LinearCurve(2, 12) }

FilterTypes == {"none", "moving_average", "median"}

InitPipeline(cap, ftypes, curves) ==
    /\ max_size = cap
    /\ buffer = << >>
    /\ filter_type \in ftypes
    /\ filter_values = << >>
    /\ calibration_result \in curves
    /\ calibration_mode = FALSE
    /\ last_op = "__init__"
    /\ ret = None
    /\ events = << >>
    /\ appended = << >>
    /\ InitEngine
    /\ InitRest

InitPipe == InitPipeline(PipeCap, FilterTypes, {None})

FeedPipe == \E line \in PipeLines : ProcessRawData(line)

DoSetCalibration == \E arg \in PipeCurves \cup {None, NotAResult} : SetCalibration(arg)

DoSetCalibrationMode == \E enabled \in BOOLEAN : SetCalibrationMode(enabled)

NextPipe == FeedPipe \/ ClearBuffer \/ DoSetCalibration

SpecPipe == InitPipe /\ [][NextPipe]_vars

\* -------------------------------------------------------------- SpecStats
\* The pipeline without a filter or a curve, fed any line, with the
\* statistics timer firing at any moment.
InitStats == InitPipeline(PipeCap, {"none"}, {None})

NextStats == FeedPipe \/ ClearBuffer \/ UpdateStatistics \/ GetStatistics

SpecStats == InitStats /\ [][NextStats]_vars

\* ------------------------------------------------------------- SpecConfig
\* The pipeline fed a few lines, with its configuration replaced at any
\* moment by one of another buffer size and filter type.
ConfigLines == { <<"0">>, <<"1", "2">>, <<"a", "b", "c">> }

ConfigFilterTypes == {"none", "moving_average"}

InitConfig == InitPipeline(PipeCap, {"none"}, {None})

FeedConfig == \E line \in ConfigLines : ProcessRawData(line)

DoUpdateConfig ==
    \E new_size \in 1..PipeCap, new_filter_type \in ConfigFilterTypes :
        UpdateConfig(new_size, new_filter_type)

NextConfig == FeedConfig \/ ClearBuffer \/ DoUpdateConfig

SpecConfig == InitConfig /\ [][NextConfig]_vars

\* -------------------------------------------------------------- SpecUnits
\* The pipeline without a filter, fed two levels and a line that is no
\* number, with the curve installed and removed between samples and the
\* statistics timer firing at any moment.  The curve 2x + 12 maps neither
\* level to itself.
UnitLines == { <<"0">>, <<"1", "2">>, <<"a", "b", "c">> }

InitUnits == InitPipeline(PipeCap, {"none"}, {None})

FeedUnits == \E line \in UnitLines : ProcessRawData(line)

NextUnits == FeedUnits \/ ClearBuffer \/ DoSetCalibration \/ UpdateStatistics

SpecUnits == InitUnits /\ [][NextUnits]_vars

\* -------------------------------------------------------------- SpecTrend
\* The pipeline with a history as long as the statistics window, fed a
\* signal that holds one level for 5 samples and then another: levels 0, 100
\* and -100, followed by the same level or one 5 or 6 away from it, so that
\* the means of the halves are integers and the ratio is on, above or below
\* the threshold.  The feed stops on a full history.
TrendLines ==
    { <<"0">>, <<"5">>, <<"6">>, <<"-", "5">>, <<"-", "6">>,
      <<"1", "0", "0">>, <<"9", "4">>, <<"9", "5">>,
      <<"1", "0", "5">>, <<"1", "0", "6">>,
      <<"-", "1", "0", "0">>, <<"-", "9", "4">>, <<"-", "9", "5">>,
      <<"-", "1", "0", "5">>, <<"-", "1", "0", "6">> }

FirstLevels == {0, 100, 0 - 100}

LevelSteps == {0 - 6, 0 - 5, 0, 5, 6}

InitTrend == InitPipeline(StatisticsWindow, {"none"}, {None})

FeedTrend ==
    \E line \in TrendLines :
        LET value == ParseFloat(line).value
        IN  /\ Len(buffer) < max_size
            /\ IF buffer = << >> THEN value \in FirstLevels
               ELSE IF Len(buffer) = 5
               THEN value - buffer[1].raw_value \in LevelSteps
               ELSE value = buffer[Len(buffer)].raw_value
            /\ ProcessRawData(line)

NextTrend == FeedTrend \/ UpdateStatistics

SpecTrend == InitTrend /\ [][NextTrend]_vars

\* ------------------------------------------------------------ SpecOutlier
\* The pipeline with a history long enough for the outlier check.  The feed
\* is two nearby levels and a spike: the upper level comes among the first 5
\* samples of a history, the spike once it holds at least 9, and the feed
\* pauses on a full history until it is cleared.
Level == <<"1", "2">>

Spike == <<"1", "2", "0">>

OutlierLines == { <<"0">>, Level, Spike }

InitOutlier ==
    InitPipeline(OutlierCap, {"none", "moving_average"}, {None, LinearCurve(2, 12)})

FeedOutlier ==
    \E line \in OutlierLines :
        /\ Len(buffer) < max_size
        /\ line = Level => Len(buffer) < 5
        /\ line = Spike => Len(buffer) >= MinOutlierSamples - 1
        /\ ProcessRawData(line)

NextOutlier == FeedOutlier \/ ClearBuffer \/ DoSetCalibrationMode

SpecOutlier == InitOutlier /\ [][NextOutlier]_vars

\* ---------------------------------------------------------------- SpecCal
\* The calibration engine driven by its caller, its timer and the clock.
\* The caller stops collecting at MaxPoints points and the sensor stops
\* delivering at MaxReadings buffered readings.
Weights == {0, 10}

ReadingValues == {1, 2}

Methods == {"linear", "polynomial_2", "polynomial_3", "cubic_spline"}

InitCal ==
    /\ InitPipeline(PipeCap, {"none"}, {None})

DoStartCalibration == StartCalibration(<<0, 10>>)

DoStartPointCollection ==
    \E w \in Weights :
        /\ Len(calibration_points) < MaxPoints
        /\ StartPointCollection(w)

DoAddSensorReading ==
    \E v \in ReadingValues :
        /\ Len(current_readings) < MaxReadings
        /\ AddSensorReading(v)

DoCompleteCurrentPoint ==
    /\ Len(calibration_points) < MaxPoints
    /\ CompleteCurrentPoint

DoCalculateCalibration ==
    \E method \in Methods, build \in LinregressBuilds :
        \E r2 \in ZeroSpreadRSquared(FitData(calibration_points)) :
            CalculateCalibration(method, build, r2)

NextCal ==
    \/ DoStartCalibration
    \/ DoStartPointCollection
    \/ DoAddSensorReading
    \/ DoCompleteCurrentPoint
    \/ DoCalculateCalibration
    \/ CancelCalibration
    \/ CheckCollectionProgress
    \/ AdvanceTime

SpecCal == InitCal /\ [][NextCal]_vars

\* ------------------------------------------------------------- SpecResult
\* SpecCal with a caller that keeps the result of calculate_calibration, as
\* the wizard's analysis page does, and goes on using the engine.
\* run_analysis: the analysis page calls calculate_calibration with the
\* linear method and keeps what it returns.
RunAnalysis ==
    \E build \in LinregressBuilds : CalculateCalibration("linear", build, NaN)

KeepResult ==
    /\ last_op = "calculate_calibration"
    /\ held = None
    /\ last_op' = "run_analysis"
    /\ held' = ret
    /\ held_alias' = IF ret = None THEN {} ELSE aliased
    /\ ret' = None
    /\ events' = << >>
    /\ UNCHANGED <<pipeVars, calVars, appended, now, restVars, page>>

\* The weights are put on in order, and the sensor follows the weight.
ResultWeight == 10 * Len(calibration_points)

ResultReading == 1 + Len(calibration_points)

ResultStartPointCollection ==
    /\ Len(calibration_points) < ResultMaxPoints
    /\ StartPointCollection(ResultWeight)

ResultAddSensorReading ==
    /\ Len(current_readings) < ResultMaxReadings
    /\ AddSensorReading(ResultReading)

ResultCompleteCurrentPoint ==
    /\ Len(calibration_points) < ResultMaxPoints
    /\ CompleteCurrentPoint

ResultPassTime == PassTime(ResultMaxTime)

NextResult ==
    \/ DoStartCalibration
    \/ ResultStartPointCollection
    \/ ResultAddSensorReading
    \/ ResultCompleteCurrentPoint
    \/ RunAnalysis
    \/ KeepResult
    \/ CancelCalibration
    \/ CheckCollectionProgress
    \/ ResultPassTime

SpecResult == InitCal /\ [][NextResult]_vars

\* --------------------------------------------------------------- SpecTick
\* The collection of one point with a min_samples above the 10 samples of
\* the forced completion, as in every configuration the program builds
\* (150 by default, 50 to 500 from the wizard): readings of one value
\* arrive, time passes and the timer ticks.
InitTick ==
    /\ max_size = PipeCap
    /\ buffer = << >>
    /\ filter_type = "none"
    /\ filter_values = << >>
    /\ calibration_result = None
    /\ calibration_mode = FALSE
    /\ last_op = "__init__"
    /\ ret = None
    /\ events = << >>
    /\ appended = << >>
    /\ InitEngineWith(TickMinSamples)
    /\ InitRest

TickStartPointCollection ==
    /\ calibration_points = << >>
    /\ StartPointCollection(10)

\* The readings delivered while the load settles, the first of which may be
\* off by one, and the readings of the settled load, at another level.
StabilizingValues == {1, 2}

SteadyValues == {12}

TickReadings ==
    IF is_stabilizing
    THEN IF current_readings = << >> THEN StabilizingValues ELSE {1}
    ELSE SteadyValues

TickAddSensorReading ==
    \E v \in TickReadings :
        /\ IF is_stabilizing \/ current_point = None
           THEN Len(current_readings) < TickMaxStabilizing
           ELSE Len(current_point.sensor_readings) < TickMaxReadings
        /\ AddSensorReading(v)

TickPassTime == PassTime(TickMaxTime)

NextTick ==
    \/ TickStartPointCollection
    \/ TickAddSensorReading
    \/ CheckCollectionProgress
    \/ TickPassTime

SpecTick == InitTick /\ [][NextTick]_vars

\* The timer fires every 100 ms while it runs, the sensor keeps sending
\* readings, and time passes.
SpecTickFair ==
    /\ SpecTick
    /\ WF_vars(CheckCollectionProgress)
    /\ WF_vars(TickAddSensorReading)
    /\ WF_vars(TickPassTime)

\* --------------------------------------------------------------- SpecStab
\* One collection with a long stabilization.  The sensor delivers 0, now
\* and then the level 10, and spikes placed around the lengths where the
\* code changes its behaviour: against nine 0 and one 10 (mean 1, standard
\* deviation 3) the spike 28 has the z-score 9 exactly and 29 is above it.
\* At most one level and one spike are in the buffer at a time.
LevelValues == {10}

SpikeValues == {28, 29}

LevelLengths == {0, 15, 45, 50}

SpikeLengths == {9, 10, 19, 20, 21, 50}

Holds(readings, values) == \E i \in 1..Len(readings) : readings[i] \in values

StabReadings ==
    LET n == Len(current_readings)
    IN  {0}
        \cup (IF n \in LevelLengths /\ ~Holds(current_readings, LevelValues)
              THEN LevelValues ELSE {})
        \cup (IF n \in SpikeLengths /\ ~Holds(current_readings, SpikeValues)
              THEN SpikeValues ELSE {})

StabAddSensorReading ==
    \E v \in StabReadings :
        /\ current_point # None
        /\ Len(current_point.sensor_readings) < StabMaxSteady
        /\ AddSensorReading(v)

StabPassTime == PassTime(StabMaxTime)

NextStab ==
    \/ TickStartPointCollection
    \/ StabAddSensorReading
    \/ CheckCollectionProgress
    \/ StabPassTime

SpecStab == InitTick /\ [][NextStab]_vars

\* ------------------------------------------------- save / load_calibration
\* A JSON document, as json.dump writes it and json.load reads it: every
\* value carries its JSON type.  A float is written with its shortest
\* repr, which reads back as the same float; nan and -inf are written as
\* NaN and -Infinity and read back as such.
JsonNumber(x) == [number |-> x]

JsonString(s) == [string |-> s]

JsonBool(b) == [boolean |-> b]

JsonArray(items) == [array |-> items]

JsonObject(members) == [object |-> members]

JsonNumbers(values) == JsonArray([i \in 1..Len(values) |-> JsonNumber(values[i])])

\* The dict save_calibration builds for a point, without quality_score.
PointDataNoQuality(point) ==
    JsonObject([reference_weight |-> JsonNumber(point.reference_weight),
                sensor_readings |-> JsonNumbers(point.sensor_readings),
                collection_time |-> JsonNumber(point.collection_time)])

\* The dict save_calibration builds for a point.
PointData(point) ==
    JsonObject([reference_weight |-> JsonNumber(point.reference_weight),
                sensor_readings |-> JsonNumbers(point.sensor_readings),
                collection_time |-> JsonNumber(point.collection_time),
                quality_score |-> JsonNumber(point.quality_score)])

\* The document save_calibration writes for a result.
ResultData(result) ==
    JsonObject([method |-> JsonString(result.method),
                coefficients |-> JsonNumbers(result.coefficients),
                r_squared |-> JsonNumber(result.r_squared),
                rmse |-> JsonNumber(result.rmse_sq),
                created_time |-> JsonNumber(result.created_time),
                validation_passed |-> JsonBool(result.validation_passed),
                points |-> JsonArray([i \in 1..Len(result.points) |->
                                         PointData(result.points[i])])])

\* load_calibration: the values of a JSON array, as a list.
Values(json) == [i \in 1..Len(json.array) |-> json.array[i].number]

\* point_data.get('quality_score', 1.0)
QualityOf(point_data) ==
    IF "quality_score" \in DOMAIN point_data THEN point_data.quality_score.number
    ELSE 100

\* load_calibration: the CalibrationPoint restored from a dict of the file.
RestoredPoint(json) ==
    LET point_data == json.object
    IN  CalibrationPoint(point_data.reference_weight.number,
                         Values(point_data.sensor_readings),
                         point_data.collection_time.number,
                         QualityOf(point_data))

\* load_calibration: the CalibrationResult restored from a document.
RestoredResult(json) ==
    LET data == json.object
    IN  [method |-> data.method.string,
         coefficients |-> Values(data.coefficients),
         r_squared |-> data.r_squared.number,
         rmse_sq |-> data.rmse.number,
         points |-> [i \in 1..Len(data.points.array) |->
                        RestoredPoint(data.points.array[i])],
         created_time |-> data.created_time.number,
         validation_passed |->
             IF "validation_passed" \in DOMAIN data
             THEN data.validation_passed.boolean ELSE FALSE]

\* save_calibration.  writable: whether open(filename, 'w') succeeds.
SaveCalibration(result, filename, writable) ==
    /\ last_op' = "save_calibration"
    /\ ret' = None
    /\ IF writable
       THEN /\ files' = [files EXCEPT ![filename] = ResultData(result)]
            /\ events' = << >>
       ELSE /\ files' = files
            /\ events' = <<Event("error_occurred", "Save failed",
                                 EngineSeen(state, calibration_points))>>
    /\ UNCHANGED <<pipeVars, calVars, appended, now, min_samples, butter, fed,
                   outs, statistics, max_buffer_size, call_stack,
                   event_queue, heldVars>>

\* load_calibration.  A file that was never written cannot be opened.
LoadCalibration(filename) ==
    /\ last_op' = "load_calibration"
    /\ IF files[filename] = None
       THEN /\ ret' = None
            /\ events' = <<Event("error_occurred", "Load failed",
                                 EngineSeen(state, calibration_points))>>
       ELSE /\ ret' = RestoredResult(files[filename])
            /\ events' = << >>
    /\ UNCHANGED <<pipeVars, calVars, appended, now, restVars, heldVars>>

\* ---------------------------------------------------------------- SpecFit
\* The engine after the collection of 2 to FitMaxPoints points, the k-th at
\* the k-th reference weight of an increasing series, as the wizard passes
\* them: the calculation, and the saving and loading of its results.
FitReadings == { <<1>>, <<2>>, <<3>>, <<1, 3>> }

FitWeight(k) == 10 * (k - 1)

CollectedPoint(k, readings) ==
    LET point == CalibrationPoint(FitWeight(k), readings, k, 100)
    IN  [point EXCEPT !.quality_score =
                          EvaluatePointQuality(point, MaxCvPercentage, MinSamples)]

CollectedLists ==
    UNION { [1..n -> FitReadings] : n \in 2..FitMaxPoints }

\* The engine as the last complete_current_point left it.
InitCollected(readings) ==
    LET n == Len(readings)
        points == [k \in 1..n |-> CollectedPoint(k, readings[k])]
    IN  /\ min_samples = MinSamples
        /\ state = "idle"
        /\ current_step = 0
        /\ total_steps = n
        /\ calibration_points = points
        /\ current_point = points[n]
        /\ aliased = {n}
        /\ current_readings = readings[n]
        /\ collection_start_time = n
        /\ stabilization_start_time = n
        /\ target_weight = [value |-> FitWeight(n)]
        /\ is_stabilizing = FALSE
        /\ timer_active = FALSE
        /\ now = n + 1

InitFit ==
    /\ max_size = PipeCap
    /\ buffer = << >>
    /\ filter_type = "none"
    /\ filter_values = << >>
    /\ calibration_result = None
    /\ calibration_mode = FALSE
    /\ last_op = "complete_current_point"
    /\ ret = True
    /\ events = << >>
    /\ appended = << >>
    /\ InitRest
    /\ \E readings \in CollectedLists : InitCollected(readings)

IsResult(value) == "coefficients" \in DOMAIN value

DoSaveCalibration ==
    \E filename \in DOMAIN files, writable \in BOOLEAN :
        /\ IsResult(ret)
        /\ SaveCalibration(ret, filename, writable)

DoLoadCalibration == \E filename \in DOMAIN files : LoadCalibration(filename)

NextFit ==
    \/ DoCalculateCalibration
    \/ DoSaveCalibration
    \/ DoLoadCalibration

SpecFit == InitFit /\ [][NextFit]_vars

\* ------------------------------------------------------------- SpecFilter
\* A filter object on its own, under any sequence of filter and reset calls.
FilterInputs == {0, 12, 24}

InitFilter ==
    /\ max_size = PipeCap
    /\ buffer = << >>
    /\ filter_type \in {"moving_average", "median", "butterworth"}
    /\ filter_values = << >>
    /\ calibration_result = None
    /\ calibration_mode = FALSE
    /\ last_op = "__init__"
    /\ ret = None
    /\ events = << >>
    /\ appended = << >>
    /\ InitEngine
    /\ files = NoFiles
    /\ \E use_scipy \in BOOLEAN :
          butter = IF filter_type = "butterworth" THEN ButterworthNew(use_scipy)
                   ELSE None
    /\ fed = << >>
    /\ outs = << >>
    /\ statistics = DefaultSnapshot
    /\ max_buffer_size = max_size
    /\ held = None
    /\ held_alias = {}
    /\ page = None
    /\ call_stack = IdleStacks
    /\ event_queue = << >>

DoFilterCall ==
    \E value \in FilterInputs :
        /\ Len(fed) < MaxCalls
        /\ FilterCall(value)

DoFilterReset ==
    /\ Len(fed) < MaxCalls
    /\ FilterReset

NextFilter == DoFilterCall \/ DoFilterReset

SpecFilter == InitFilter /\ [][NextFilter]_vars

\* ------------------------------------------------------------- SpecBuffer
\* The buffer on its own, under any sequence of append and clear.
BufItems == { DataPoint(v, v, v, 100) : v \in {0, 12, 24} }

InitBuffer ==
    /\ max_size \in 0..MaxCap
    /\ buffer = << >>
    /\ appended = << >>
    /\ filter_type = "none"
    /\ filter_values = << >>
    /\ calibration_result = None
    /\ calibration_mode = FALSE
    /\ last_op = "__init__"
    /\ ret = None
    /\ events = << >>
    /\ InitEngine
    /\ InitRest

notBuf == <<filter_type, filter_values, calibration_result, calibration_mode, ret, events>>

BufAppend(item) ==
    /\ Len(appended) < MaxAppends
    /\ buffer' = BufferAppend(buffer, item, max_size)
    /\ appended' = Append(appended, item)
    /\ last_op' = "append"
    /\ UNCHANGED <<max_size, notBuf, calVars, now, restVars, heldVars>>

BufClear ==
    /\ buffer' = BufferClear(buffer)
    /\ appended' = << >>
    /\ last_op' = "clear"
    /\ UNCHANGED <<max_size, notBuf, calVars, now, restVars, heldVars>>

\* get_latest(count): the call and the list it returns.
BufGetLatest(count) ==
    /\ ret' = [count |-> count, items |-> BufferGetLatest(buffer, count)]
    /\ last_op' = "get_latest"
    /\ UNCHANGED <<buffer, max_size, appended, filter_type, filter_values,
                   calibration_result, calibration_mode, events, calVars, now,
                   restVars, heldVars>>

DoBufAppend == \E item \in BufItems : BufAppend(item)

DoBufGetLatest == \E count \in 0..(MaxCap + 1) : BufGetLatest(count)

NextBuffer == DoBufAppend \/ BufClear \/ DoBufGetLatest

SpecBuffer == InitBuffer /\ [][NextBuffer]_vars

\* ---------------------------------------------------------------------------
\* The threads: who runs process_raw_data, add_sensor_reading and the two
\* timer slots, and when.

\* The four operations on the pipeline and the engine.
SampleAndTickOps == {"process_raw_data", "add_sensor_reading",
                     "_update_statistics", "_check_collection_progress"}

\* What a function calls, in order; an emit of a signal calls the slots
\* connected to it when sender and receiver live in the same thread.
Calls(fn) ==
    CASE fn = "emit data_received" ->
             <<"MainWindow._on_serial_data", "CalibrationWizard._on_serial_data">>
      [] fn = "MainWindow._on_serial_data" -> <<"process_raw_data">>
      [] fn = "process_raw_data" -> <<"_on_data_processed">>
      [] fn = "CalibrationWizard._on_serial_data" -> <<"add_sensor_reading">>
      [] fn = "add_sensor_reading" -> <<"update_sensor_value">>
      [] fn = "_check_collection_progress" ->
             <<"update_progress", "complete_current_point">>
      [] fn = "complete_current_point" -> <<"on_point_collected">>
      [] fn = "on_point_collected" -> <<"_on_collection_completed">>
      [] fn = "run_analysis" -> <<"calculate_calibration">>
      [] fn = "calculate_calibration" -> <<"on_error">>
      [] fn = "on_error" -> <<"QMessageBox.critical">>
      [] OTHER -> << >>

\* The calls made whatever the data: the others sit behind a condition or an
\* early return.
CalledAlways == {"MainWindow._on_serial_data", "CalibrationWizard._on_serial_data",
                 "process_raw_data", "QMessageBox.critical"}

\* A modal dialog runs an event loop of its own until it is closed.
RunsEventLoop(fn) == fn = "QMessageBox.critical"

Pending(slot) == \E i \in 1..Len(event_queue) : event_queue[i] = slot

\* What a function posts to the event loop: the analysis page, shown when
\* the collection is complete, starts a single-shot timer for run_analysis.
Posts(fn) ==
    IF fn = "_on_collection_completed" /\ ~Pending("run_analysis")
    THEN <<"run_analysis">> ELSE << >>

DeliveryDirect(sender) == "direct"

\* How a signal reaches a slot of an object living in the GUI thread
\* (connections are made with the default type): called at once when
\* emitted in that thread, posted to its event loop when emitted in another.
Delivery(sender) == IF sender = "gui" THEN "direct" ELSE "queued"

Frame(fn) == [fn |-> fn, pc |-> 1]

Top(t) == call_stack[t][Len(call_stack[t])]

\* The number of calls of the given functions in progress in thread t.
InProgress(t, fns) ==
    Cardinality({i \in 1..Len(call_stack[t]) : call_stack[t][i].fn \in fns})

\* The event loop of the GUI thread is running: the application's, or a
\* modal dialog's.
InEventLoop ==
    IF call_stack["gui"] = << >> THEN TRUE ELSE RunsEventLoop(Top("gui").fn)

dataVars == <<pipeVars, calVars, callVars, appended, now, min_samples, files,
              butter, fed, outs, statistics, max_buffer_size, heldVars>>

\* _read_loop has read a line and emits data_received.
ReadLoopEmit ==
    /\ call_stack["reader"] = << >>
    /\ IF Delivery("reader") = "queued"
       THEN /\ Len(event_queue) + 2 <= MaxPosted
            /\ event_queue' = event_queue \o Calls("emit data_received")
            /\ UNCHANGED call_stack
       ELSE /\ call_stack' = [call_stack EXCEPT
                                 !["reader"] = <<Frame("emit data_received")>>]
            /\ UNCHANGED event_queue
    /\ UNCHANGED dataVars

\* A running QTimer times out: its slot is due at the event loop.
TimerTimeout(slot) ==
    /\ Len(event_queue) < MaxPosted
    /\ ~Pending(slot)
    /\ event_queue' = Append(event_queue, slot)
    /\ UNCHANGED <<call_stack, dataVars>>

StatisticsTimerTimeout == TimerTimeout("_update_statistics")

CollectionTimerTimeout == TimerTimeout("_check_collection_progress")

\* The event loop takes the next event and calls its slot.
Dispatch ==
    /\ InEventLoop
    /\ event_queue # << >>
    /\ call_stack' = [call_stack EXCEPT
                         !["gui"] = Append(@, Frame(Head(event_queue)))]
    /\ event_queue' = Tail(event_queue)
    /\ UNCHANGED dataVars

\* The function on top of a thread's stack reaches its next call, and makes
\* it or, when the call is conditional, may not.
Step(t) ==
    /\ call_stack[t] # << >>
    /\ Top(t).pc <= Len(Calls(Top(t).fn))
    /\ LET callee == Calls(Top(t).fn)[Top(t).pc]
           moved == [call_stack[t] EXCEPT ![Len(call_stack[t])].pc = @ + 1]
       IN  \/ /\ callee = "on_error" =>
                    InProgress(t, {"QMessageBox.critical"}) < MaxNested
              /\ call_stack' = [call_stack EXCEPT
                                   ![t] = Append(moved, Frame(callee))]
           \/ /\ callee \notin CalledAlways
              /\ call_stack' = [call_stack EXCEPT ![t] = moved]
    /\ UNCHANGED <<event_queue, dataVars>>

\* The function on top of a thread's stack returns.
Return(t) ==
    /\ call_stack[t] # << >>
    /\ Top(t).pc > Len(Calls(Top(t).fn))
    /\ ~RunsEventLoop(Top(t).fn)
    /\ call_stack' = [call_stack EXCEPT
                         ![t] = SubSeq(@, 1, Len(@) - 1)]
    /\ event_queue' = event_queue \o Posts(Top(t).fn)
    /\ UNCHANGED dataVars

\* The user closes the modal dialog: its event loop ends.
CloseDialog ==
    /\ call_stack["gui"] # << >>
    /\ RunsEventLoop(Top("gui").fn)
    /\ call_stack' = [call_stack EXCEPT
                         !["gui"] = SubSeq(@, 1, Len(@) - 1)]
    /\ UNCHANGED <<event_queue, dataVars>>

DoStep == \E t \in Threads : Step(t)

DoReturn == \E t \in Threads : Return(t)

NextLoop ==
    \/ ReadLoopEmit
    \/ StatisticsTimerTimeout
    \/ CollectionTimerTimeout
    \/ Dispatch
    \/ DoStep
    \/ DoReturn
    \/ CloseDialog

SpecLoop == InitCal /\ [][NextLoop]_vars

\* ------------------------------------------------------------- SpecWizard
\* The collection page of the wizard drives the engine: the user starts the
\* collection of the weight shown or skips it while it is collected, the
\* sensor delivers readings, time passes and the timer ticks.
PageWeights == <<0, 10, 20>>

NewPage == [current_step |-> 0, is_collecting |-> FALSE, skipped |-> {}]

\* The page is shown and has a weight left.
PageShown == IF page = None THEN FALSE ELSE page.current_step < Len(PageWeights)

\* CollectionPage.initializePage: the page starts at the first weight and
\* calls start_calibration on the wizard's engine, which is IDLE.
InitializePage ==
    /\ page = None
    /\ state = "idle"
    /\ page' = NewPage
    /\ last_op' = "initializePage"
    /\ ret' = True
    /\ events' = << >>
    /\ calibration_points' = << >>
    /\ aliased' = {}
    /\ current_step' = 0
    /\ total_steps' = Len(PageWeights)
    /\ UNCHANGED <<state, current_point, current_readings,
                   collection_start_time, stabilization_start_time,
                   target_weight, is_stabilizing, timer_active>>
    /\ UNCHANGED <<pipeVars, appended, now, restVars, held, held_alias>>

\* CollectionPage.start_collection, the slot of the start button.
StartCollection ==
    /\ PageShown
    /\ ~page.is_collecting
    /\ StartPointCollection(PageWeights[page.current_step + 1])

\* CollectionPage.skip_weight, the slot of the skip button, which is
\* enabled from start_collection to the end of the collection.
SkipWeight ==
    /\ PageShown
    /\ page.is_collecting
    /\ page' = [page EXCEPT !.current_step = @ + 1,
                            !.is_collecting = FALSE,
                            !.skipped = @ \cup {PageWeights[page.current_step + 1]}]
    /\ last_op' = "skip_weight"
    /\ ret' = None
    /\ events' = << >>
    /\ UNCHANGED <<pipeVars, calVars, appended, now, restVars, held, held_alias>>

\* CalibrationWizard._on_serial_data: the sensor follows the load.
WizardAddSensorReading ==
    /\ PageShown
    /\ state = "collecting"
    /\ Len(current_readings) < WizardMaxReadings
    /\ AddSensorReading(1 + Len(calibration_points))

WizardPassTime == PassTime(WizardMaxTime)

NextWizard ==
    \/ InitializePage
    \/ StartCollection
    \/ SkipWeight
    \/ WizardAddSensorReading
    \/ CheckCollectionProgress
    \/ WizardPassTime

SpecWizard == InitCal /\ [][NextWizard]_vars

\* ------------------------------------------------------------------ claims
HasSignal(evs, sig) == \E i \in 1..Len(evs) : evs[i].sig = sig

\* C2: a line that does not parse returns no sample, emits exactly one
\* processing-error event and leaves the history and the filter window as
\* they were; a line that parses is processed and appended, also after such
\* a failure.
C2_ParseErrorIsRecoverable ==
    [][\A line \in PipeLines :
        /\ (ProcessRawData(line) /\ ~ParseFloat(line).ok) =>
              /\ ret' = None
              /\ Signals(events') = <<"processing_error">>
              /\ buffer' = buffer
              /\ filter_values' = filter_values
        /\ (ProcessRawData(line) /\ ParseFloat(line).ok) =>
              /\ ret' # None
              /\ ret'.raw_value = ParseFloat(line).value
              /\ buffer' # << >>
              /\ buffer'[Len(buffer')] = ret'
              /\ ~HasSignal(events', "processing_error")]_vars

C2_Witness ==
    /\ last_op = "process_raw_data"
    /\ ret = None
    /\ Signals(events) = <<"processing_error">>
    /\ Len(buffer) = 2
    /\ filter_values # << >>

\* The z-score of value against the filtered values of the samples stored
\* before it exceeds the threshold k, and their spread is not zero.
StoredBefore(buf) == [i \in 1..Len(buf) |-> buf[i].filtered_value]

ZScoreExceeds(value, stored, k) ==
    LET n == Len(stored)
        total == SeqSum(stored)
        spread == n * SeqSumSq(stored) - total * total
    IN  /\ spread > 0
        /\ (n * value - total) * (n * value - total) > k * k * spread

\* C3: in calibration mode process_raw_data never emits outlier-detected;
\* out of calibration mode, with at least 10 stored samples of non-zero
\* spread and a sample whose z-score against them exceeds outlier_threshold,
\* it does.
C3_CalibrationModeSuppressesOutliers ==
    [][\A line \in OutlierLines :
        /\ (ProcessRawData(line) /\ calibration_mode) =>
              ~HasSignal(events', "outlier_detected")
        /\ (/\ ProcessRawData(line)
            /\ ~calibration_mode
            /\ Len(buffer) >= 10
            /\ ZScoreExceeds(ret'.filtered_value,
                             StoredBefore(LastN(buffer, StatisticsWindow)), 3)) =>
              /\ HasSignal(events', "outlier_detected")
              /\ events'[1].arg = ret']_vars

\* A spike after 10 samples, in calibration mode: not reported.
C3_Witness ==
    /\ calibration_mode
    /\ last_op = "process_raw_data"
    /\ Len(buffer) = 11
    /\ ret = buffer[11]
    /\ ZScoreExceeds(ret.filtered_value, StoredBefore(SubSeq(buffer, 1, 10)), 3)
    /\ ~HasSignal(events, "outlier_detected")

\* C4: a sample processed while the history holds fewer than 10 samples
\* raises no outlier-detected event, whatever its value: none of the first
\* 10 samples after the start or after a clear does.
C4_OutlierGating ==
    (/\ last_op = "process_raw_data"
     /\ ret # None
     /\ Len(buffer) <= 10
     /\ Len(buffer) < max_size)
        => ~HasSignal(events, "outlier_detected")

\* The 10th sample is a spike far from the 9 stored ones, out of calibration
\* mode: not reported.
C4_Witness ==
    /\ ~calibration_mode
    /\ last_op = "process_raw_data"
    /\ Len(buffer) = 10
    /\ ret = buffer[10]
    /\ ZScoreExceeds(ret.filtered_value, StoredBefore(SubSeq(buffer, 1, 9)), 3)
    /\ ~HasSignal(events, "outlier_detected")

\* C1: the history never holds more than its capacity C; once more than C
\* samples have been appended since the last clear it holds exactly C, and
\* in every case its contents are the most recently appended samples, in
\* arrival order.
C1_BoundedHistory ==
    /\ Len(buffer) <= max_size
    /\ (Len(appended) > max_size => Len(buffer) = max_size)
    /\ buffer = LastN(appended, max_size)

C1_Witness ==
    /\ max_size = 2
    /\ Len(appended) = 4
    /\ buffer = SubSeq(appended, 3, 4)
    /\ buffer[1] # buffer[2]
    /\ appended[1] # appended[3]

\* C5: start_point_collection(w) called while the engine is Collecting with
\* a point in progress returns false and changes nothing: the state, target
\* weight, in-progress point, buffered readings, stabilization flag and start
\* times stay as they were, and no event is emitted.
C5_StartWhileCollectingIsRejected ==
    [][\A w \in Weights :
          (state = "collecting" /\ current_point # None /\ StartPointCollection(w))
          => /\ ret' = False
             /\ events' = << >>
             /\ UNCHANGED <<state, target_weight, current_point, current_readings,
                            is_stabilizing, collection_start_time,
                            stabilization_start_time>>
             /\ UNCHANGED calVars]_vars

\* A refused start_point_collection during a collection that has buffered a
\* reading.
C5_Witness ==
    /\ last_op = "start_point_collection"
    /\ ret = False
    /\ state = "collecting"
    /\ current_point # None
    /\ current_readings # << >>

\* C6: a successful complete_current_point stops the progress tick, appends
\* the in-progress point, with its quality score set, to the point list,
\* sets the state to Idle and emits point-collected after both; the engine
\* then stays Idle, starting no further collection and not advancing its
\* step counter, until the caller calls start_point_collection.
PointCompleted ==
    \/ CompleteCurrentPoint /\ ret' = True
    \/ CheckCollectionProgress /\ Len(calibration_points') > Len(calibration_points)

C6_CompleteCurrentPoint ==
    [][/\ PointCompleted
          => LET n == Len(calibration_points')
             IN  /\ ~timer_active'
                 /\ n = Len(calibration_points) + 1
                 /\ current_point' =
                        [current_point EXCEPT
                            !.quality_score =
                                EvaluatePointQuality(current_point,
                                                     MaxCvPercentage, min_samples)]
                 /\ calibration_points'[n] = current_point'
                 /\ state' = "idle"
                 /\ current_step' = current_step
                 /\ events'[Len(events')] =
                        Event("point_collected", current_point',
                              [state |-> "idle", n_points |-> n])
       /\ state = "idle" => ~timer_active
       /\ (state = "idle" /\ (DoAddSensorReading \/ CheckCollectionProgress))
          => UNCHANGED calVars
       /\ (state # "collecting" /\ state' = "collecting")
          => last_op' = "start_point_collection"
       /\ current_step' # current_step
          => last_op' \in {"start_calibration", "cancel_calibration"}]_vars

\* A completion that took the engine from Collecting to Idle.
C6_Witness ==
    /\ last_op = "complete_current_point"
    /\ ret = True
    /\ Signals(events) = <<"state_changed", "point_collected">>
    /\ state = "idle"
    /\ ~timer_active
    /\ calibration_points # << >>

\* C7: cancel_calibration called in any state leaves the engine Idle with an
\* empty point list, no in-progress point, no buffered readings and the
\* progress tick stopped; afterwards add_sensor_reading and ticks change
\* nothing until start_point_collection is called.
Cancelled ==
    /\ state = "idle"
    /\ calibration_points = << >>
    /\ current_point = None
    /\ current_readings = << >>
    /\ ~timer_active

C7_CancelCalibration ==
    [][/\ CancelCalibration => Cancelled'
       /\ (Cancelled /\ (DoAddSensorReading \/ CheckCollectionProgress))
          => (UNCHANGED calVars /\ events' = << >>)
       /\ (Cancelled /\ last_op' # "start_point_collection") => Cancelled']_vars

\* A sensor reading that arrived after the cancellation of a calibration
\* that had started a collection.
C7_Witness ==
    /\ last_op = "add_sensor_reading"
    /\ Cancelled
    /\ target_weight # None

\* C8: calculate_calibration called with fewer than 2 collected points
\* returns null and leaves the engine state and the point list unchanged,
\* emitting no state-changed, calibration-completed or error event.
C8_TooFewPoints ==
    [][(Len(calibration_points) < 2 /\ DoCalculateCalibration)
       => /\ ret' = None
          /\ state' = state
          /\ calibration_points' = calibration_points
          /\ events' = << >>]_vars

\* calculate_calibration called with one point during the collection of the
\* next one.
C8_Witness ==
    /\ last_op = "calculate_calibration"
    /\ ret = None
    /\ events = << >>
    /\ Len(calibration_points) = 1
    /\ state = "collecting"

\* C9: the validation_passed flag of a computed result is true exactly when
\* R^2 >= 0.95 and RMSE <= 0.1 and, for the linear method, slope > 0; for the
\* polynomial methods no slope condition applies.
RSquaredAtLeast095(r2) == IsRat(r2) /\ r2.num * 100 >= 95 * r2.den

RmseAtMost01(rmse_sq) == IsRat(rmse_sq) /\ rmse_sq.num * 100 <= rmse_sq.den

SlopePositive(slope) == IsRat(slope) /\ slope.num > 0

Computed == last_op = "calculate_calibration" /\ ret # None

C9_ValidationFlag ==
    Computed
    => (ret.validation_passed
        <=> /\ RSquaredAtLeast095(ret.r_squared)
            /\ RmseAtMost01(ret.rmse_sq)
            /\ ret.method = "linear" => SlopePositive(ret.coefficients[1]))

\* A polynomial fit of points that all have the same reference weight: R^2
\* is not a number, and the result is flagged as valid.
C9_Witness ==
    /\ Computed
    /\ ret.method = "polynomial_2"
    /\ ret.r_squared = NaN
    /\ ret.validation_passed

\* C10: calculate_calibration with at least 2 points whose fit fails
\* validation still returns the result (validation_passed = false), ends in
\* state Completed after passing through Processing, and emits
\* calibration-completed with that result; only an exception raised during
\* fitting leads to state Error and a null return.
SameAverageReading(points) ==
    \A i, j \in 1..Len(points) : AverageReading(points[i]) = AverageReading(points[j])

C10_FailedValidationStillReturns ==
    [][\A method \in Methods, build \in LinregressBuilds :
          \A r2 \in ZeroSpreadRSquared(FitData(calibration_points)) :
             (Len(calibration_points) >= 2 /\ CalculateCalibration(method, build, r2))
             => /\ events'[1] = Event("state_changed", "processing",
                                      EngineSeen("processing", calibration_points))
                /\ IF HasSignal(events', "error_occurred")
                   THEN /\ ret' = None
                        /\ state' = "error"
                        /\ method \in {"linear", "cubic_spline"}
                        /\ SameAverageReading(calibration_points)
                        /\ Signals(events') =
                               <<"state_changed", "error_occurred", "state_changed">>
                   ELSE /\ ret' # None
                        /\ ret'.method = method
                        /\ ret'.validation_passed \in BOOLEAN
                        /\ state' = "completed"
                        /\ Signals(events') =
                               <<"state_changed", "state_changed", "calibration_completed">>
                        /\ events'[2].arg = "completed"
                        /\ events'[3] = Event("calibration_completed", ret',
                                              EngineSeen("completed", calibration_points))]_vars

\* A linear fit with a negative slope: returned, flagged as not valid, the
\* state Completed.
C10_Witness ==
    /\ last_op = "calculate_calibration"
    /\ ret # None
    /\ ret.method = "linear"
    /\ ~ret.validation_passed
    /\ state = "completed"
    /\ Signals(events) = <<"state_changed", "state_changed", "calibration_completed">>

\* C11: the engine state changes only along the transitions Idle ->
\* Collecting (start_point_collection), Collecting -> Idle
\* (complete_current_point), Idle -> Processing -> Completed or Processing ->
\* Error (calculate_calibration) and any state -> Idle (cancel_calibration);
\* in particular Collecting is entered only from Idle and Processing is
\* entered only from Idle.
EntersProcessing == DoCalculateCalibration /\ HasSignal(events', "state_changed")

C11_TransitionsOnly ==
    [][/\ (state # "collecting" /\ state' = "collecting")
          => (state = "idle" /\ \E w \in Weights : StartPointCollection(w))
       /\ EntersProcessing
          => (state = "idle" /\ state' \in {"completed", "error"})
       /\ (state # "idle" /\ state' = "idle")
          => (CancelCalibration \/ (state = "collecting" /\ PointCompleted))
       /\ (state' \in {"completed", "error"} /\ ~EntersProcessing)
          => state' = state]_vars

\* C12: for every calibration result r, save_calibration(r, f) followed by
\* load_calibration(f) returns a result with the same method, coefficients,
\* r_squared, rmse, created time, validation flag and the same number of
\* points, each with the same reference weight, readings, collection time
\* and quality score; neither operation changes the engine's state or point
\* list.
SameResult(loaded, saved) ==
    /\ loaded.method = saved.method
    /\ loaded.coefficients = saved.coefficients
    /\ loaded.r_squared = saved.r_squared
    /\ loaded.rmse_sq = saved.rmse_sq
    /\ loaded.created_time = saved.created_time
    /\ loaded.validation_passed = saved.validation_passed
    /\ Len(loaded.points) = Len(saved.points)
    /\ \A i \in 1..Len(saved.points) :
          /\ loaded.points[i].reference_weight = saved.points[i].reference_weight
          /\ loaded.points[i].sensor_readings = saved.points[i].sensor_readings
          /\ loaded.points[i].collection_time = saved.points[i].collection_time
          /\ loaded.points[i].quality_score = saved.points[i].quality_score

\* What load_calibration(f) returns when it is called next.
NextLoad(filename) ==
    IF files[filename] = None THEN None ELSE RestoredResult(files[filename])

C12_SaveLoadRoundTrip ==
    [][\A f \in DOMAIN files :
          /\ (IsResult(ret) /\ SaveCalibration(ret, f, TRUE))
             => /\ IsResult(NextLoad(f)')
                /\ SameResult(NextLoad(f)', ret)
                /\ events' = << >>
                /\ UNCHANGED <<state, calibration_points>>
                /\ UNCHANGED calVars
          /\ LoadCalibration(f)
             => /\ ret' = NextLoad(f)
                /\ UNCHANGED <<state, calibration_points>>
                /\ UNCHANGED <<calVars, files>>]_vars

\* A loaded polynomial result with a point of reduced quality.
C12_Witness ==
    /\ last_op = "load_calibration"
    /\ IsResult(ret)
    /\ ret.method = "polynomial_2"
    /\ Len(ret.points) = 3
    /\ \E i \in 1..3 : ret.points[i].quality_score = 50
    /\ ret = RestoredResult(files["a.json"])

\* C15: calculate_calibration(linear) on points whose (mean reading,
\* reference weight) pairs lie exactly on a line with positive slope, for
\* example (1,0), (2,10), (3,20), returns that line's slope and intercept (10
\* and -10 in the example), R^2 = 1 and RMSE = 0, with validation_passed
\* true.
ReadingSum(point) == SeqSum(point.sensor_readings)

ReadingCount(point) == Len(point.sensor_readings)

\* The line through two points with different mean readings.
Run(p, q) == ReadingSum(q) * ReadingCount(p) - ReadingSum(p) * ReadingCount(q)

Rise(p, q) == (q.reference_weight - p.reference_weight) * ReadingCount(p) * ReadingCount(q)

InterceptTimesRun(p, q) ==
    p.reference_weight * Run(p, q)
    - (q.reference_weight - p.reference_weight) * ReadingCount(q) * ReadingSum(p)

LiesOnLineThrough(r, p, q) ==
    r.reference_weight * Run(p, q) * ReadingCount(r)
    = Rise(p, q) * ReadingSum(r) + InterceptTimesRun(p, q) * ReadingCount(r)

OnRisingLineThrough(points, i, j) ==
    /\ \A k \in 1..Len(points) : ReadingCount(points[k]) > 0
    /\ Run(points[i], points[j]) > 0
    /\ Rise(points[i], points[j]) > 0
    /\ \A k \in 1..Len(points) : LiesOnLineThrough(points[k], points[i], points[j])

C15_LinearFitRecoversLine ==
    [][\A build \in LinregressBuilds, i, j \in 1..Len(calibration_points) :
          (/\ Len(calibration_points) >= 2
           /\ OnRisingLineThrough(calibration_points, i, j)
           /\ CalculateCalibration("linear", build, NaN))
          => LET p == calibration_points[i]
                 q == calibration_points[j]
             IN  /\ IsResult(ret')
                 /\ ret'.coefficients =
                        <<Frac(Rise(p, q), Run(p, q)),
                          Frac(InterceptTimesRun(p, q), Run(p, q))>>
                 /\ ret'.r_squared = Frac(1, 1)
                 /\ ret'.rmse_sq = Frac(0, 1)
                 /\ ret'.validation_passed]_vars

\* The fit of (1,0), (2,10), (3,20).
C15_Witness ==
    /\ last_op = "calculate_calibration"
    /\ IsResult(ret)
    /\ ret.method = "linear"
    /\ Len(ret.points) = 3
    /\ \A k \in 1..3 : ret.points[k].sensor_readings = <<k>>
    /\ \A k \in 1..3 : ret.points[k].reference_weight = 10 * (k - 1)
    /\ ret.coefficients = <<Frac(10, 1), Frac(-10, 1)>>
    /\ ret.r_squared = Frac(1, 1)
    /\ ret.rmse_sq = Frac(0, 1)
    /\ ret.validation_passed

\* C13: for each filter (moving average, median, Butterworth), calling
\* reset() and then feeding any sequence of samples yields the same output
\* sequence as a freshly constructed filter with the same parameters fed the
\* same sequence, whatever was fed before the reset.
IsReset(call) == "reset" \in DOMAIN call

RECURSIVE SinceReset(_)
SinceReset(calls) ==
    IF calls = << >> \/ IsReset(calls[Len(calls)]) THEN << >>
    ELSE Append(SinceReset(SubSeq(calls, 1, Len(calls) - 1)), calls[Len(calls)].value)

\* The outputs of a filter in the given state for the inputs, in order.
RECURSIVE Outputs(_, _, _, _)
Outputs(ftype, values, object, inputs) ==
    IF inputs = << >> THEN << >>
    ELSE IF ftype = "butterworth"
         THEN LET r == ButterworthFilter(object, Head(inputs))
              IN  <<r.out>> \o Outputs(ftype, values, r.next, Tail(inputs))
         ELSE LET window == FilterAppend(values, Head(inputs), ObjectWindow)
              IN  <<FilterOutput(ftype, window)>>
                  \o Outputs(ftype, window, object, Tail(inputs))

\* The outputs of a freshly constructed filter of the same type, parameters
\* and build.
FreshOutputs(inputs) ==
    Outputs(filter_type, << >>,
            IF filter_type = "butterworth" THEN ButterworthNew(butter.use_scipy)
            ELSE None,
            inputs)

C13_ResetIsFresh ==
    LastN(outs, Len(SinceReset(fed))) = FreshOutputs(SinceReset(fed))

\* Two values, a reset, and a value that differs from the last one fed
\* before the reset.
C13_Witness ==
    /\ Len(fed) = 4
    /\ ~IsReset(fed[1])
    /\ ~IsReset(fed[2])
    /\ IsReset(fed[3])
    /\ ~IsReset(fed[4])
    /\ fed[4].value # fed[2].value
    /\ filter_type = "butterworth"
    /\ butter.use_scipy
    /\ outs[3] = fed[4].value

\* C14: the quality score of a value is 1.0 when the value lies inside
\* [0, 10000] and deviates from the mean of the last 3 stored samples by at
\* most 3 times their standard deviation (or fewer than 3 samples are
\* stored); it is multiplied by 0.5 when the value is outside [0, 10000] and
\* by 0.7 when the deviation exceeds 3 times that standard deviation, so the
\* score is always one of 1.0, 0.7, 0.5, 0.35.  Scores are in percent.
InsideRange(value) == value >= 0 /\ value <= 10000

Steady(value, stored) ==
    \/ Len(stored) < 3
    \/ ~DeviatesMoreThan(value, RawValues(SubSeq(stored, Len(stored) - 2, Len(stored))), 3)

ScoreOf(value, stored) ==
    ((IF InsideRange(value) THEN 100 ELSE 50)
     * (IF Steady(value, stored) THEN 100 ELSE 70)) \div 100

Scored == last_op' = "process_raw_data" /\ ret' # None

C14_QualityScore ==
    [][Scored =>
          /\ ret'.quality_score = ScoreOf(ret'.raw_value, buffer)
          /\ ret'.quality_score \in {100, 70, 50, 35}
          /\ (ret'.quality_score = 100) =
                (InsideRange(ret'.raw_value) /\ Steady(ret'.raw_value, buffer))]_vars

\* A value above the range that also deviates from three stored samples.
C14_Witness ==
    /\ last_op = "process_raw_data"
    /\ ret # None
    /\ ret.raw_value > 10000
    /\ ret.quality_score = 35

\* C16: after any sequence of set_calibration calls, is_calibrated() is true
\* exactly when the most recent accepted call installed a result,
\* get_calibration_info() is null exactly when is_calibrated() is false, and
\* every call that installs or removes a curve emits exactly one
\* calibration-status-changed event carrying that boolean; a call with an
\* object that is not a calibration result changes nothing and emits
\* nothing.
StatusEvents(evs) == SelectSeq(evs, LAMBDA e : e.sig = "calibration_status_changed")

\* The call was refused: nothing of the processor changed, nothing emitted.
Refused ==
    /\ events' = << >>
    /\ UNCHANGED <<buffer, filter_values, calibration_result, calibration_mode>>

\* The call was accepted: one event, carrying is_calibrated() after it.
Accepted ==
    /\ events' = StatusEvents(events')
    /\ Len(events') = 1
    /\ events'[1].arg = IsCalibrated(calibration_result')
    /\ IsCalibrated(calibration_result') => IsResult(calibration_result')

MostRecent(s, n) ==
    LET k == IF n < Len(s) THEN n ELSE Len(s)
    IN  [i \in 1..k |-> s[Len(s) - k + i]]

C17_GetLatest ==
    [][last_op' = "get_latest" =>
          /\ ret'.items = MostRecent(buffer, ret'.count)
          /\ buffer' = buffer]_vars

\* The same for every n >= 1.
C17_GetLatestPositive ==
    [][(last_op' = "get_latest" /\ ret'.count >= 1) =>
          /\ ret'.items = MostRecent(buffer, ret'.count)
          /\ buffer' = buffer]_vars

\* get_latest(0) on a buffer that holds samples returned them all.
C17_Witness ==
    /\ last_op = "get_latest"
    /\ ret.count = 0
    /\ buffer # << >>
    /\ ret.items = buffer

\* A step of the timer's slot, and the steady-state sub-phase before it.
TickStep == last_op' = "_check_collection_progress" /\ now' = now

SteadyState ==
    /\ state = "collecting"
    /\ timer_active
    /\ current_point # None
    /\ collection_start_time # 0
    /\ ~is_stabilizing

Elapsed == now - collection_start_time

SampleCount == Len(current_point.sensor_readings)

PointCompletes ==
    /\ state' = "idle"
    /\ Len(calibration_points') = Len(calibration_points) + 1
    /\ HasSignal(events', "point_collected")

\* C18: in the steady-state sub-phase, once the elapsed time reaches
\* 2 x collection_duration, the next progress tick force-completes the point
\* whenever at least 10 samples have been collected, even if min_samples has
\* not been reached.
C18_ForceCompletion ==
    [][(TickStep /\ SteadyState /\ Elapsed >= 2 * CollectionDuration
           /\ SampleCount >= 10) => PointCompletes]_vars

\* The same with more than 10 samples.
C18_ForceCompletionAbove10 ==
    [][(TickStep /\ SteadyState /\ Elapsed >= 2 * CollectionDuration
           /\ SampleCount > 10) => PointCompletes]_vars

\* Still collecting with exactly 10 samples after the hard timeout, the
\* last call a tick.
C18_Witness ==
    /\ last_op = "_check_collection_progress"
    /\ SteadyState
    /\ Elapsed >= 2 * CollectionDuration
    /\ SampleCount = 10

\* C19: in the steady-state sub-phase and before the hard timeout, a
\* progress tick completes the point only when both collection_duration has
\* elapsed and at least min_samples samples have been collected; no tick
\* completes the point while either condition is still unmet, and no tick
\* completes it during stabilization.
C19_CompletionNeedsBoth ==
    [][(TickStep /\ PointCompletes) =>
          /\ SteadyState
          /\ Elapsed < 2 * CollectionDuration =>
                (Elapsed >= CollectionDuration /\ SampleCount >= min_samples)]_vars

\* A point completed by a tick before the hard timeout.
C19_Witness ==
    /\ last_op = "_check_collection_progress"
    /\ state = "idle"
    /\ Len(calibration_points) = 1
    /\ HasSignal(events, "point_collected")
    /\ Elapsed >= CollectionDuration
    /\ Elapsed < 2 * CollectionDuration
    /\ Len(calibration_points[1].sensor_readings) >= min_samples

CompletedBefore == last_op = "complete_current_point" /\ ret = True

C22_CompletesOnce ==
    [][(CompletedBefore /\ last_op' = "complete_current_point") =>
          /\ ret' = False
          /\ calibration_points' = calibration_points]_vars

\* The same point appended twice by two calls in a row.
C22_Witness ==
    /\ CompletedBefore
    /\ Len(calibration_points) = 2
    /\ aliased = {1, 2}
    /\ calibration_points[1] = calibration_points[2]

\* C23: every point in the engine's point list has at least one sensor
\* reading collected in the steady-state sub-phase: complete_current_point
\* never appends a point whose reading list is empty, whether it is called
\* by the progress tick or directly by the caller, during stabilization or
\* right after it.
C23_NoEmptyPoint ==
    \A i \in 1..Len(calibration_points) :
        calibration_points[i].sensor_readings # << >>

\* The same for the points the progress tick completes.
C23_NoEmptyPointFromTick ==
    [][(last_op' = "_check_collection_progress" /\ now' = now
           /\ Len(calibration_points') > Len(calibration_points)) =>
          calibration_points'[Len(calibration_points')].sensor_readings # << >>]_vars

\* A point without readings, appended by a direct call during
\* stabilization.
C23_Witness ==
    /\ last_op = "complete_current_point"
    /\ ret = True
    /\ is_stabilizing
    /\ current_readings # << >>
    /\ calibration_points # << >>
    /\ calibration_points[Len(calibration_points)].sensor_readings = << >>

\* C30: once a point has been appended to the engine's point list, its
\* reference weight and sensor readings never change under any later
\* operation (add_sensor_reading, progress ticks, start_point_collection,
\* complete_current_point, calculate_calibration); only its quality score is
\* written, at completion.
Measured(point) ==
    [reference_weight |-> point.reference_weight,
     sensor_readings |-> point.sensor_readings]

ListKept == Len(calibration_points') >= Len(calibration_points)

C30_AppendedPointsFrozen ==
    [][ListKept =>
          \A i \in 1..Len(calibration_points) :
              /\ Measured(calibration_points'[i]) = Measured(calibration_points[i])
              /\ calibration_points'[i].quality_score # calibration_points[i].quality_score
                    => last_op' \in {"complete_current_point",
                                     "_check_collection_progress"}]_vars

\* A second collection ran, with a reading, after a first point with a
\* reading was appended.
C30_Witness ==
    /\ Len(calibration_points) = 2
    /\ aliased = {2}
    /\ calibration_points[1].sensor_readings # << >>
    /\ calibration_points[2].sensor_readings # << >>
    /\ calibration_points[1].sensor_readings # calibration_points[2].sensor_readings

\* C21: no reading delivered by add_sensor_reading during the stabilization
\* sub-phase appears in the sensor readings of the point that is later
\* completed; the completed point contains exactly the readings accepted
\* after stabilization ended, in arrival order.  In SpecTick the readings
\* delivered during stabilization and after it are of different values, and
\* current_readings holds every accepted reading of both.
AcceptedAfterStabilization ==
    SelectSeq(current_readings, LAMBDA v : v \in SteadyValues)

C21_StabilizationDiscarded ==
    \A i \in 1..Len(calibration_points) :
        /\ \A k \in 1..Len(calibration_points[i].sensor_readings) :
              calibration_points[i].sensor_readings[k] \notin StabilizingValues
        /\ calibration_points[i].sensor_readings = AcceptedAfterStabilization

\* A completed point after readings arrived in both sub-phases.
C21_Witness ==
    /\ Len(calibration_points) = 1
    /\ state = "idle"
    /\ Len(current_readings) > Len(calibration_points[1].sensor_readings)
    /\ Len(calibration_points[1].sensor_readings) >= min_samples
    /\ current_readings[1] \in StabilizingValues

\* C24: once a collection has left stabilization, if progress ticks keep
\* firing and readings keep being delivered by add_sensor_reading (at least
\* min_samples of them), the collection eventually completes and the engine
\* returns to Idle, whatever the values of the readings, including a level
\* shift relative to the stabilization samples.  The clock of the model
\* stops at TickMaxTime, so the collection must have started before it.
ClockRoom == collection_start_time + CollectionDuration <= TickMaxTime

C24_EventuallyCompletes ==
    [](SteadyState /\ ClockRoom => <>(state = "idle"))

\* Every reading of the settled load is rejected as an outlier against the
\* last 10 readings, which are all from stabilization, and the point has no
\* reading yet.
Rejecting ==
    /\ SteadyState
    /\ SampleCount = 0
    /\ \A v \in SteadyValues : EngineIsOutlier(v, current_readings)

\* Such a state is never left by readings, ticks and the passing of time.
C24_RejectingForever == [][Rejecting => Rejecting']_vars

C24_Witness ==
    /\ Rejecting
    /\ ClockRoom
    /\ Elapsed >= 2 * CollectionDuration
    /\ last_op = "add_sensor_reading"
    /\ events = << >>

\* Every collection that has left stabilization completes unless it comes to
\* reject every reading.
C24_CompletesUnlessRejecting ==
    [](SteadyState /\ ClockRoom => <>(state = "idle" \/ Rejecting))

\* C25: for every line that parses, process_raw_data appends exactly one
\* sample to the history and emits exactly one sample-processed event, in
\* the order outlier-detected (if flagged) -> append -> sample-processed; a
\* sample flagged as an outlier is still appended and emitted, so when
\* sample-processed fires the sample is already the newest element of the
\* history.
SampleProduced == last_op' = "process_raw_data" /\ ret' # None

\* The history after one more sample, the oldest dropped when it was full.
WithOneMore(stored, sample, capacity) ==
    Append(IF Len(stored) < capacity THEN stored ELSE Tail(stored), sample)

C25_EmitOrder ==
    [][SampleProduced =>
          LET n == Len(events')
          IN  /\ buffer' = WithOneMore(buffer, ret', max_size)
              /\ n \in {1, 2}
              /\ events'[n].sig = "data_processed"
              /\ events'[n].arg = ret'
              /\ events'[n].seen = [length |-> Len(buffer'), newest |-> ret']
              /\ n = 2 =>
                    /\ events'[1].sig = "outlier_detected"
                    /\ events'[1].arg = ret'
                    /\ events'[1].seen.length = Len(buffer)
                    /\ buffer # << >> /\ events'[1].seen.newest = buffer[Len(buffer)]]_vars

\* A sample flagged as an outlier, appended and emitted.
C25_Witness ==
    /\ last_op = "process_raw_data"
    /\ Signals(events) = <<"outlier_detected", "data_processed">>
    /\ buffer[Len(buffer)] = ret
    /\ events[2].seen.newest = ret

\* C26: with calibration mode off and at least 10 stored samples, the
\* outlier decision for a new sample depends only on the 10 most recent
\* stored samples: it is flagged exactly when its z-score against the mean
\* and standard deviation of their effective values exceeds
\* outlier_threshold, and older samples have no influence.
EffectiveValues(buf) == [i \in 1..Len(buf) |-> buf[i].calibrated_value]

Flagged == HasSignal(events', "outlier_detected")

Judged == SampleProduced /\ ~calibration_mode /\ Len(buffer) >= 10

RecomputedOnEmpty == last_op = "_update_statistics" /\ buffer = << >>

C27_EmptyHistoryZeroSnapshot ==
    RecomputedOnEmpty =>
        /\ statistics.count = 0
        /\ statistics.min_value = 0
        /\ statistics.max_value = 0

\* A recompute on a cleared history that left the snapshot of earlier data.
C27_Witness ==
    /\ RecomputedOnEmpty
    /\ events = << >>
    /\ statistics.count > 0

\* C28: a sample whose quality score is at least quality_threshold is passed
\* through the configured filter and its filtered value is the filter's
\* output; a sample whose quality score is below the threshold (or when no
\* filter is configured) gets filtered value = raw value and does not enter
\* the filter's window, leaving the filter state unchanged.
WindowWith(value) == LastN(Append(filter_values, value), FilterWindow)

C28_FilterOnlyGoodSamples ==
    [][SampleProduced =>
          IF filter_type # "none" /\ ret'.quality_score >= QualityThreshold
          THEN /\ filter_values' = WindowWith(ret'.raw_value)
               /\ ret'.filtered_value = FilterOutput(filter_type, filter_values')
          ELSE /\ ret'.filtered_value = ret'.raw_value
               /\ filter_values' = filter_values]_vars

\* A sample of low quality that a configured filter with a window in use
\* did not take.
C28_Witness ==
    /\ last_op = "process_raw_data"
    /\ ret # None
    /\ filter_type # "none"
    /\ ret.quality_score < QualityThreshold
    /\ filter_values # << >>
    /\ \A i \in 1..Len(filter_values) : filter_values[i] # ret.raw_value
    /\ ret.filtered_value = ret.raw_value

\* C29: every sample produced by process_raw_data has its calibrated value
\* set: the active curve evaluated at the sample's filtered value (not its
\* raw value) when a calibration is installed, otherwise the filtered value
\* itself; its effective value therefore always equals its calibrated value.
CurveAt(curve, x) ==
    RatAdd(Frac(curve.coefficients[1].num * x, curve.coefficients[1].den),
           curve.coefficients[2])

EffectiveValue(dp) ==
    DataPointValue(Some(dp.calibrated_value), Some(dp.filtered_value),
                   dp.raw_value)

C29_CalibratedFromFiltered ==
    [][SampleProduced =>
          /\ IF calibration_result # None
             THEN Frac(ret'.calibrated_value, 1)
                     = CurveAt(calibration_result, ret'.filtered_value)
             ELSE ret'.calibrated_value = ret'.filtered_value
          /\ EffectiveValue(ret') = ret'.calibrated_value]_vars

\* A sample that the filter changed and the installed curve then mapped.
C29_Witness ==
    /\ last_op = "process_raw_data"
    /\ ret # None
    /\ calibration_result # None
    /\ ret.filtered_value # ret.raw_value
    /\ ret.calibrated_value # ret.filtered_value
    /\ EffectiveValue(ret) = ret.calibrated_value

\* C31: after calculate_calibration has returned a result, no later engine
\* operation (cancel_calibration, start_calibration, further point
\* collection, another calculate_calibration) changes that result's method,
\* coefficients, R^2, RMSE or its list of points.
EngineStep == last_op' # "run_analysis"

C31_ResultImmutable == [][(held # None /\ EngineStep) => held' = held]_vars

\* A kept result whose last point is still the engine's current point,
\* while the engine collects again or was restarted.
C31_Witness ==
    /\ held # None
    /\ last_op \in {"add_sensor_reading", "complete_current_point",
                    "_check_collection_progress"}
    /\ state = "idle"
    /\ held_alias # {}
    /\ Len(calibration_points) > Len(held.points)

\* C32: during stabilization, add_sensor_reading accepts every reading while
\* fewer than 20 readings are buffered and never keeps more than the 50 most
\* recent ones; whenever the engine's outlier gate is active, a reading is
\* rejected only if at least 10 readings are buffered and its z-score
\* against the last 10 buffered readings exceeds 3 times the configured
\* outlier_threshold (never when their spread is zero), and a rejected
\* reading changes neither the buffer nor the point.
Delivered == {0} \cup LevelValues \cup SpikeValues

ReadingAccepted == HasSignal(events', "data_point_added")

GateActive == ~is_stabilizing \/ Len(current_readings) >= 20

C32_StabilizationGate ==
    [][\A v \in Delivered :
          (AddSensorReading(v) /\ ~ReadingIgnored) =>
             /\ (is_stabilizing /\ Len(current_readings) < 20) => ReadingAccepted
             /\ is_stabilizing =>
                   /\ Len(current_readings') <= 50
                   /\ ReadingAccepted =>
                         current_readings' = LastN(Append(current_readings, v), 50)
             /\ (GateActive /\ ~ReadingAccepted) =>
                   /\ Len(current_readings) >= 10
                   /\ ZScoreExceeds(v, LastN(current_readings, 10),
                                    3 * EngineOutlierThreshold)
             /\ ~ReadingAccepted =>
                   /\ current_readings' = current_readings
                   /\ current_point' = current_point
                   /\ calibration_points' = calibration_points]_vars

\* A reading rejected during a stabilization that holds the 50 most recent
\* readings.
C32_Witness ==
    /\ last_op = "add_sensor_reading"
    /\ state = "collecting"
    /\ current_point # None
    /\ is_stabilizing
    /\ events = << >>
    /\ Len(current_readings) = 50

\* C33: a statistics snapshot computed from fewer than 10 values has trend
\* 'stable'; computed from 10 or more values, with r = (mean of second half
\* - mean of first half) / mean of first half, its trend is 'increasing' if
\* r > 0.05, 'decreasing' if r < -0.05 and 'stable' otherwise, and 'stable'
\* when the first-half mean is 0.
Recomputed == last_op = "_update_statistics" /\ buffer # << >>

Window == StatisticsValues(LastN(buffer, StatisticsWindow))

FirstHalf == SubSeq(Window, 1, Len(Window) \div 2)

SecondHalf == SubSeq(Window, Len(Window) \div 2 + 1, Len(Window))

\* 20 * r > 1 and 20 * r < -1 for r = RatioNum / RatioDen, RatioDen # 0.
RatioNum == SeqSum(SecondHalf) * Len(FirstHalf) - SeqSum(FirstHalf) * Len(SecondHalf)

RatioDen == Len(SecondHalf) * SeqSum(FirstHalf)

RatioAbove == IF RatioDen > 0 THEN 20 * RatioNum > RatioDen ELSE 20 * RatioNum < RatioDen

RatioBelow ==
    IF RatioDen > 0 THEN 20 * RatioNum < 0 - RatioDen ELSE 20 * RatioNum > 0 - RatioDen

C33_TrendRule ==
    Recomputed =>
        statistics.trend =
            IF Len(Window) < 10 \/ SeqSum(FirstHalf) = 0 THEN "stable"
            ELSE IF RatioAbove THEN "increasing"
            ELSE IF RatioBelow THEN "decreasing"
            ELSE "stable"

\* A snapshot of 10 or more values whose ratio is 0.05 exactly.
C33_Witness ==
    /\ Recomputed
    /\ Len(Window) >= 10
    /\ RatioDen > 0
    /\ 20 * RatioNum = RatioDen
    /\ statistics.trend = "stable"

\* C34: the reported trend never contradicts the direction of the data: it
\* is never 'decreasing' when the second-half mean of the window is greater
\* than the first-half mean, nor 'increasing' when it is smaller, including
\* for windows whose values are negative.
SecondHalfHigher == SeqSum(SecondHalf) * Len(FirstHalf) > SeqSum(FirstHalf) * Len(SecondHalf)

SecondHalfLower == SeqSum(SecondHalf) * Len(FirstHalf) < SeqSum(FirstHalf) * Len(SecondHalf)

C34_TrendFollowsData ==
    Recomputed =>
        /\ SecondHalfHigher => statistics.trend # "decreasing"
        /\ SecondHalfLower => statistics.trend # "increasing"

\* A window of negative values that rises and is reported as decreasing.
C34_Witness ==
    /\ Recomputed
    /\ SeqSum(FirstHalf) < 0
    /\ SecondHalfHigher
    /\ statistics.trend = "decreasing"

\* C35: the history never holds more samples than the current
\* configuration's max_buffer_size, including after update_config installs
\* a configuration with a different buffer size.
C35_HistoryWithinConfiguredSize == Len(buffer) <= max_buffer_size

\* A history longer than the buffer size of the configuration installed by
\* update_config, and still growing.
C35_Witness ==
    /\ last_op = "process_raw_data"
    /\ ret # None
    /\ max_buffer_size < max_size
    /\ Len(buffer) = max_size

\* C36: every statistics snapshot is computed from values in a single unit:
\* after set_calibration installs or removes a curve, no later snapshot
\* mixes effective values that were produced under different calibration
\* states.
InSensorUnits(dp) == dp.calibrated_value = dp.filtered_value

InPhysicalUnits(dp) ==
    \E curve \in PipeCurves :
        Frac(dp.calibrated_value, 1) = CurveAt(curve, dp.filtered_value)

SnapshotWindow == LastN(buffer, StatisticsWindow)

C36_SnapshotInOneUnit ==
    Recomputed =>
        \/ \A i \in 1..Len(SnapshotWindow) : InSensorUnits(SnapshotWindow[i])
        \/ \A i \in 1..Len(SnapshotWindow) : InPhysicalUnits(SnapshotWindow[i])

\* A snapshot over a sample produced without the curve and one produced
\* with it.
C36_Witness ==
    /\ Recomputed
    /\ statistics.count = Len(SnapshotWindow)
    /\ \E i, j \in 1..Len(SnapshotWindow) :
          /\ InSensorUnits(SnapshotWindow[i]) /\ ~InPhysicalUnits(SnapshotWindow[i])
          /\ InPhysicalUnits(SnapshotWindow[j]) /\ ~InSensorUnits(SnapshotWindow[j])
    /\ statistics.min_value = 0
    /\ statistics.max_value = 36

\* C37: after k inputs since construction or reset, a moving-average filter
\* with window W outputs the arithmetic mean, and a median filter the median
\* (mean of the two middle values for an even count), of exactly the last
\* min(k, W) inputs.
LastInputs ==
    LET inputs == SinceReset(fed)
        k == Len(inputs)
        m == IF k < ObjectWindow THEN k ELSE ObjectWindow
    IN  SubSeq(inputs, k - m + 1, k)

\* The n-th smallest of the values of s.
Smallest(s, n) ==
    CHOOSE x \in {s[i] : i \in 1..Len(s)} :
        /\ Cardinality({i \in 1..Len(s) : s[i] < x}) < n
        /\ Cardinality({i \in 1..Len(s) : s[i] <= x}) >= n

MeanTimes(s, out) == out * Len(s) = SeqSum(s)

MedianIs(s, out) ==
    IF Len(s) % 2 = 1 THEN out = Smallest(s, (Len(s) + 1) \div 2)
    ELSE 2 * out = Smallest(s, Len(s) \div 2) + Smallest(s, Len(s) \div 2 + 1)

C37_WindowedMeanAndMedian ==
    (last_op = "filter" /\ filter_type # "butterworth") =>
        IF filter_type = "moving_average" THEN MeanTimes(LastInputs, ret.out)
        ELSE MedianIs(LastInputs, ret.out)

\* A median filter past its window, where the median of the last inputs is
\* not their mean.
C37_Witness ==
    /\ last_op = "filter"
    /\ filter_type = "median"
    /\ Len(SinceReset(fed)) > ObjectWindow
    /\ Len(LastInputs) = ObjectWindow
    /\ ~MeanTimes(LastInputs, ret.out)
    /\ MedianIs(LastInputs, ret.out)

\* ---------------------------------------------------------------------------
\* C38: process_raw_data, add_sensor_reading, the statistics tick and the
\* collection progress tick never overlap: over all threads at most one call
\* of them is in progress at any time, the time a slot called by one of
\* them is running included.
Overlapping == InProgress("gui", SampleAndTickOps)
               + InProgress("reader", SampleAndTickOps)

C39_StartOnlyWhenIdle ==
    [][last_op' = "start_calibration" =>
          IF state = "idle"
          THEN /\ ret' = True
               /\ calibration_points' = << >>
               /\ current_step' = 0
               /\ state' = "idle"
          ELSE /\ ret' = False
               /\ UNCHANGED <<calVars, pipeVars, heldVars>>]_vars

\* start_calibration was refused after a fit, and the fitted points are
\* still there.
C39_Witness ==
    /\ last_op = "start_calibration"
    /\ ret = False
    /\ state \in {"completed", "error"}
    /\ Len(calibration_points) >= 2

\* ---------------------------------------------------------------------------
\* C40: skipping a weight while it is collected abandons the collection (the
\* engine is left with no collection in progress and never holds a point of
\* a skipped weight), and the next start_collection makes the engine collect
\* for the weight the page then shows.
NoPointOfSkipped(points, p) ==
    \A i \in 1..Len(points) : points[i].reference_weight \notin p.skipped

C40_SkipAbandonsCollection ==
    [][/\ last_op' = "skip_weight" => ~CollectionInProgress'
       /\ page' # None => NoPointOfSkipped(calibration_points', page')
       /\ (PageShown /\ last_op' = "start_point_collection") =>
              /\ ret' = True
              /\ target_weight' = [value |-> PageWeights[page.current_step + 1]]
      ]_vars

\* The engine has completed the point of a weight the user skipped.
C40_Witness ==
    /\ page # None
    /\ ~NoPointOfSkipped(calibration_points, page)

====
